---------------------------- MODULE Spec2Model ----------------------------
(***************************************************************************)
(* The SNAP classification rules engine of benefits-onboard                *)
(* (server/app/snap_classification): two ordered rule chains, the facade   *)
(* classify_income / classify_expense, and the keyword / category          *)
(* predicates they share.                                                  *)
(*                                                                         *)
(* Python values are modelled as follows.                                  *)
(*   - text is a TLA+ string; strip(), lower(), upper() and the substring  *)
(*     test `k in text` are computed character by character;               *)
(*   - a value stored in a transaction dict is tagged with its Python      *)
(*     type: Str(s), Num(n), PyNone, Dict(d); a key that is not in the     *)
(*     dict is not in the DOMAIN of the function that models the dict;     *)
(*   - an amount is a whole number of cents (-85.00 is -8500);             *)
(*   - the outcome of a call is a returned value, a returned None or a     *)
(*     raised exception.                                                   *)
(***************************************************************************)
EXTENDS Integers, Sequences, FiniteSets, TLC

VARIABLES
    txn,            \* the transaction dict handed to the classifiers
    INCOME_RULES,   \* classifiers.py: module-level list of income rules
    EXPENSE_RULES,  \* classifiers.py: module-level list of expense rules
    history,        \* the classifiers called so far, in call order
    result,         \* the outcome of the last call
    first,          \* the outcome of the first call of each classifier
    classification, \* a classification object handed to to_dict
    serialized,     \* the outcome of to_dict on it
    threads,        \* the call each concurrent caller is making: its locals
    upload          \* a request to the upload endpoint: its inputs and progress

vars ==
    <<txn, INCOME_RULES, EXPENSE_RULES, history, result, first, classification,
      serialized, threads, upload>>

-----------------------------------------------------------------------------
(* Bounds of the model *)

\* Number of classifier calls made on the transaction in one run.
MaxCalls == 3

\* Number of callers that classify concurrently.
NumCallers == 2

\* Number of transactions in an extracted bank statement.
MaxTransactions == 2

-----------------------------------------------------------------------------
(* Python values *)

PyNone == [t |-> "NoneType"]
Str(s) == [t |-> "str", v |-> s]
Num(n) == [t |-> "num", v |-> n]
Dict(d) == [t |-> "dict", v |-> d]

\* A key left out of a dict literal (used only to build the sample dicts).
Absent == [t |-> "absent"]

\* The dict with the entries of record r whose value is not Absent.
MakeDict(r) == [k \in {j \in DOMAIN r : r[j] # Absent} |-> r[k]]

EmptyDict == MakeDict([primary |-> Absent])

IsStr(x) == x.t = "str"
IsNum(x) == x.t = "num"
IsNone(x) == x.t = "NoneType"
IsDict(x) == x.t = "dict"

\* dict.get(key, default)
Get(d, key, default) == IF key \in DOMAIN d THEN d[key] ELSE default

\* Python truthiness of a value: None, "", 0 and {} are falsy.
Truthy(x) ==
    CASE IsNone(x) -> FALSE
      [] IsStr(x)  -> x.v # ""
      [] IsNum(x)  -> x.v # 0
      [] IsDict(x) -> DOMAIN x.v # {}

\* x or default
OrElse(x, default) == IF Truthy(x) THEN x ELSE default

\* Outcomes of a call.
ReturnsNone == [kind |-> "None"]
Returns(c) == [kind |-> "value", value |-> c]
Raises(e) == [kind |-> "raise", exc |-> e]
NoCall == [kind |-> "nocall"]

\* An unset Optional field of a classification.
None == "None"

-----------------------------------------------------------------------------
(* Text *)

UPPERCASE == "ABCDEFGHIJKLMNOPQRSTUVWXYZ"
LOWERCASE == "abcdefghijklmnopqrstuvwxyz"
WHITESPACE == {" "}

CharAt(s, i) == SubSeq(s, i, i)

ToLower ==
    [c \in {CharAt(UPPERCASE, i) : i \in 1..Len(UPPERCASE)} |->
        LET i == CHOOSE j \in 1..Len(UPPERCASE) : CharAt(UPPERCASE, j) = c
        IN  CharAt(LOWERCASE, i)]

ToUpper ==
    [c \in {CharAt(LOWERCASE, i) : i \in 1..Len(LOWERCASE)} |->
        LET i == CHOOSE j \in 1..Len(LOWERCASE) : CharAt(LOWERCASE, j) = c
        IN  CharAt(UPPERCASE, i)]

RECURSIVE MapChars(_, _)
MapChars(f, s) ==
    IF s = "" THEN ""
    ELSE LET c == CharAt(s, 1)
         IN  (IF c \in DOMAIN f THEN f[c] ELSE c) \o MapChars(f, SubSeq(s, 2, Len(s)))

\* str.lower(), str.upper()
lower(s) == MapChars(ToLower, s)
upper(s) == MapChars(ToUpper, s)

RECURSIVE lstrip(_)
lstrip(s) ==
    IF s # "" /\ CharAt(s, 1) \in WHITESPACE THEN lstrip(SubSeq(s, 2, Len(s))) ELSE s

RECURSIVE rstrip(_)
rstrip(s) ==
    IF s # "" /\ CharAt(s, Len(s)) \in WHITESPACE
    THEN rstrip(SubSeq(s, 1, Len(s) - 1))
    ELSE s

\* str.strip()
strip(s) == rstrip(lstrip(s))

\* k in text
In(k, text) ==
    \E i \in 1..(Len(text) - Len(k) + 1) : SubSeq(text, i, i + Len(k) - 1) = k

\* str(x) for the values a category field can hold
str(x) ==
    CASE IsStr(x)  -> x.v
      [] IsNone(x) -> "None"

-----------------------------------------------------------------------------
(* constants.py *)

EXCLUDE_KEYWORDS ==
    <<"transfer", "zelle from self", "from my account", "internal transfer">>

NOT_INCOME_KEYWORDS ==
    <<"reimbursement", "refund", "chargeback", "returned item", "cash advance",
      "loan", "disbursement", "venmo transfer between", "paypal transfer between">>

EARNED_KEYWORDS ==
    <<"payroll", "paycheck", "wages", "salary", "direct deposit", "adp", "gusto",
      "workday", "paychex", "square payroll">>

UNEARNED_KEYWORDS ==
    <<"unemployment", "social security", "ssi", "ssdi", "pension", "child support",
      "alimony">>

BANK_INTEREST_KEYWORDS == <<"interest earned", "interest", "int earned">>

TRANSFER_KEYWORDS ==
    <<"transfer", "to savings", "internal transfer", "zelle to self",
      "venmo to self", "cash app to self">>

CREDIT_CARD_PAYMENT_KEYWORDS ==
    <<"credit card payment", "cc payment", "payment to chase", "payment to amex",
      "payment to citi", "card payment">>

SHELTER_KEYWORDS ==
    <<"rent", "landlord", "property mgmt", "property management", "leasing", "apt",
      "apartment", "mortgage", "mtg">>

UTILITY_KEYWORDS ==
    <<"coned", "con ed", "con edison", "national grid", "electric", "gas bill",
      "energy", "xcel", "water", "sewer", "trash", "waste", "utility", "internet",
      "spectrum", "verizon fios", "comcast", "xfinity", "heat", "heating">>

INTERNET_KEYWORDS == <<"internet", "fios", "spectrum", "comcast", "xfinity">>

ELECTRIC_KEYWORDS == <<"electric", "coned", "con ed", "con edison">>

GAS_KEYWORDS == <<"national grid", "gas bill", "gas">>

CHILDCARE_KEYWORDS ==
    <<"daycare", "childcare", "child care", "nursery", "preschool", "after school",
      "babysitter", "nanny", "care.com", "bright horizons", "kindercare">>

MEDICAL_KEYWORDS ==
    <<"pharmacy", "rx", "prescription", "copay", "co-pay", "hospital", "clinic",
      "medical", "doctor", "dental", "vision", "therap", "medicare",
      "medicaid premium">>

CHILD_SUPPORT_KEYWORDS == <<"child support", "support payment", "iv-d", "ocse">>

\* helpers.py: the merchant-name terms of matches_utility_keyword
MERCHANT_UTILITY_TERMS == <<"energy", "electric", "gas", "utility", "power">>

-----------------------------------------------------------------------------
(* models.py *)

IncomeState == {"COUNTABLE_INCOME", "EXCLUDED_INCOME", "NOT_INCOME", "FLAG_FOR_REVIEW"}
IncomeType == {"EARNED_INCOME", "UNEARNED_INCOME"}
ExpenseState == {"COUNTABLE_DEDUCTION", "NOT_DEDUCTIBLE", "NOT_EXPENSE", "FLAG_FOR_REVIEW"}
DeductionType ==
    {"SHELTER", "UTILITIES", "MEDICAL", "CHILDCARE", "CHILD_SUPPORT_PAID",
     "LEGAL_CHILD_SUPPORT", "NONE"}
Confidence == {"high", "medium", "low"}
HIGH == "high"
MEDIUM == "medium"
LOW == "low"
INFLOW == "INFLOW"
OUTFLOW == "OUTFLOW"
EXPENSE == "expense"

\* SnapClassification(final_state, income_type=None, category=None,
\*                    reason_code=None, confidence=Confidence.MEDIUM)
SnapClassification(final_state, income_type, category, reason_code, confidence) ==
    [final_state |-> final_state, income_type |-> income_type, category |-> category,
     reason_code |-> reason_code, confidence |-> confidence]

\* ExpenseClassification(final_state, deduction_type=None, category=None,
\*                       reason_code=None, confidence=Confidence.MEDIUM)
ExpenseClassification(final_state, deduction_type, category, reason_code, confidence) ==
    [final_state |-> final_state, deduction_type |-> deduction_type,
     category |-> category, reason_code |-> reason_code, confidence |-> confidence]

\* Defective variant: the optional fields are tested for truth
\* (`if self.category:`), so an empty category or reason_code is left out.
SnapClassification_to_dict_Truthy(self) ==
    LET keys == {"final_state", "confidence"}
                    \cup {k \in {"income_type", "category", "reason_code"} :
                            self[k] \notin {None, ""}}
    IN  [k \in keys |-> self[k]]

\* SnapClassification.to_dict: final_state and confidence, then each of
\* income_type, category, reason_code that `is not None`. An enum member
\* and its .value are the same string (the enums derive from str).
SnapClassification_to_dict(self) ==
    LET keys == {"final_state", "confidence"}
                    \cup {k \in {"income_type", "category", "reason_code"} :
                            self[k] # None}
    IN  [k \in keys |-> self[k]]

\* ExpenseClassification.to_dict
ExpenseClassification_to_dict(self) ==
    LET keys == {"final_state", "confidence"}
                    \cup {k \in {"deduction_type", "category", "reason_code"} :
                            self[k] # None}
    IN  [k \in keys |-> self[k]]

-----------------------------------------------------------------------------
(* snap_classification/helpers.py *)

\* any(k in text for k in keywords)
contains_any_keyword(text, keywords) ==
    \E i \in 1..Len(keywords) : In(keywords[i], text)

\* plaid_category is the value of personal_finance_category: None or a dict
\* whose "primary" / "detailed" entries are strings or None.
is_utility_category(plaid_category) ==
    IF ~Truthy(plaid_category) THEN FALSE
    ELSE LET primary == upper(str(Get(plaid_category.v, "primary", Str(""))))
             detailed == upper(str(Get(plaid_category.v, "detailed", Str(""))))
         IN  \/ In("RENT_AND_UTILITIES", primary)
             \/ In("RENT_AND_UTILITIES", detailed)
             \/ In("GAS_AND_ELECTRICITY", detailed)
             \/ In("UTILITIES", primary)

\* Defective variant: the description is not searched.
matches_utility_keyword_MerchantOnly(desc, merchant_name) ==
    LET matches ==
            \E i \in 1..Len(UTILITY_KEYWORDS) : In(UTILITY_KEYWORDS[i], merchant_name)
    IN  IF ~matches /\ merchant_name # ""
        THEN contains_any_keyword(merchant_name, MERCHANT_UTILITY_TERMS)
        ELSE matches

matches_utility_keyword(desc, merchant_name) ==
    LET matches ==
            \E i \in 1..Len(UTILITY_KEYWORDS) :
                In(UTILITY_KEYWORDS[i], desc) \/ In(UTILITY_KEYWORDS[i], merchant_name)
    IN  IF ~matches /\ merchant_name # ""
        THEN contains_any_keyword(merchant_name, MERCHANT_UTILITY_TERMS)
        ELSE matches

-----------------------------------------------------------------------------
(* snap_classification/rules.py: the expressions the rules share *)

\* (transaction.get(key) or "")
GetOrEmpty(transaction, key) == OrElse(Get(transaction, key, PyNone), Str(""))

\* transaction.get(key, "")
GetDefaultEmpty(transaction, key) == Get(transaction, key, Str(""))

\* transaction.get("amount", 0)
GetAmount(transaction) == Get(transaction, "amount", Num(0))

-----------------------------------------------------------------------------
(* snap_classification/rules.py: income rules *)

\* Defective variant: the amount test is `amount < 0`, so an INFLOW of
\* amount 0 passes the guard.
NotInflowOrNegativeAmountRule_StrictlyNegative(transaction) ==
    LET d == GetDefaultEmpty(transaction, "direction")
        amount == GetAmount(transaction)
    IN  IF ~IsStr(d) THEN Raises("AttributeError")
        ELSE LET direction == upper(strip(d.v))
             IN  IF direction = INFLOW
                 THEN IF ~IsNum(amount) THEN Raises("TypeError")
                      ELSE IF amount.v < 0
                           THEN Returns(SnapClassification(
                                    "NOT_INCOME", None, None,
                                    "OUTFLOW_OR_NONPOSITIVE", HIGH))
                           ELSE ReturnsNone
                 ELSE Returns(SnapClassification(
                          "NOT_INCOME", None, None, "OUTFLOW_TRANSACTION", HIGH))

\* Defective variant: the second test is `direction == OUTFLOW`, so a
\* direction that is neither INFLOW nor OUTFLOW passes the guard.
NotInflowOrNegativeAmountRule_OnlyOutflow(transaction) ==
    LET d == GetDefaultEmpty(transaction, "direction")
        amount == GetAmount(transaction)
    IN  IF ~IsStr(d) THEN Raises("AttributeError")
        ELSE LET direction == upper(strip(d.v))
             IN  IF direction = INFLOW
                 THEN IF ~IsNum(amount) THEN Raises("TypeError")
                      ELSE IF amount.v <= 0
                           THEN Returns(SnapClassification(
                                    "NOT_INCOME", None, None,
                                    "OUTFLOW_OR_NONPOSITIVE", HIGH))
                           ELSE ReturnsNone
                 ELSE IF direction = OUTFLOW
                      THEN Returns(SnapClassification(
                               "NOT_INCOME", None, None, "OUTFLOW_TRANSACTION", HIGH))
                      ELSE ReturnsNone

\* Defective variant: both cases of the guard give the outflow reason.
NotInflowOrNegativeAmountRule_OneReason(transaction) ==
    LET d == GetDefaultEmpty(transaction, "direction")
        amount == GetAmount(transaction)
    IN  IF ~IsStr(d) THEN Raises("AttributeError")
        ELSE LET direction == upper(strip(d.v))
             IN  IF direction = INFLOW
                 THEN IF ~IsNum(amount) THEN Raises("TypeError")
                      ELSE IF amount.v <= 0
                           THEN Returns(SnapClassification(
                                    "NOT_INCOME", None, None,
                                    "OUTFLOW_TRANSACTION", HIGH))
                           ELSE ReturnsNone
                 ELSE Returns(SnapClassification(
                          "NOT_INCOME", None, None, "OUTFLOW_TRANSACTION", HIGH))

NotInflowOrNegativeAmountRule(transaction) ==
    LET d == GetDefaultEmpty(transaction, "direction")
        amount == GetAmount(transaction)
    IN  IF ~IsStr(d) THEN Raises("AttributeError")
        ELSE LET direction == upper(strip(d.v))
             IN  IF direction = INFLOW
                 THEN IF ~IsNum(amount) THEN Raises("TypeError")
                      ELSE IF amount.v <= 0
                           THEN Returns(SnapClassification(
                                    "NOT_INCOME", None, None,
                                    "OUTFLOW_OR_NONPOSITIVE", HIGH))
                           ELSE ReturnsNone
                 ELSE Returns(SnapClassification(
                          "NOT_INCOME", None, None, "OUTFLOW_TRANSACTION", HIGH))

NotIncomeKeywordsRule(transaction) ==
    LET d == GetOrEmpty(transaction, "description")
    IN  IF ~IsStr(d) THEN Raises("AttributeError")
        ELSE LET desc == lower(strip(d.v))
             IN  IF contains_any_keyword(desc, NOT_INCOME_KEYWORDS)
                 THEN Returns(SnapClassification(
                          "NOT_INCOME", None, None,
                          "REIMBURSEMENT_REFUND_LOAN_OR_SIMILAR", MEDIUM))
                 ELSE ReturnsNone

\* Defective variant: a transfer is returned as excluded income.
ExcludeKeywordsRule_Excluded(transaction) ==
    LET d == GetOrEmpty(transaction, "description")
    IN  IF ~IsStr(d) THEN Raises("AttributeError")
        ELSE IF contains_any_keyword(lower(strip(d.v)), EXCLUDE_KEYWORDS)
        THEN Returns(SnapClassification(
                 "EXCLUDED_INCOME", None, None,
                 "INTERNAL_TRANSFER_OR_NONINCOME_TRANSFER", MEDIUM))
        ELSE ReturnsNone

ExcludeKeywordsRule(transaction) ==
    LET d == GetOrEmpty(transaction, "description")
    IN  IF ~IsStr(d) THEN Raises("AttributeError")
        ELSE LET desc == lower(strip(d.v))
             IN  IF contains_any_keyword(desc, EXCLUDE_KEYWORDS)
                 THEN Returns(SnapClassification(
                          "NOT_INCOME", None, None,
                          "INTERNAL_TRANSFER_OR_NONINCOME_TRANSFER", MEDIUM))
                 ELSE ReturnsNone

\* Defective variant: earned income is returned without its income type.
EarnedIncomeRule_Untyped(transaction) ==
    LET d == GetOrEmpty(transaction, "description")
        ty == GetDefaultEmpty(transaction, "type")
    IN  IF ~IsStr(d) \/ ~IsStr(ty) THEN Raises("AttributeError")
        ELSE IF contains_any_keyword(lower(strip(d.v)), EARNED_KEYWORDS)
                \/ In("payroll", lower(strip(ty.v)))
        THEN Returns(SnapClassification(
                 "COUNTABLE_INCOME", None, "WAGES_OR_PAYROLL", "EARNED_INCOME_SOURCE",
                 MEDIUM))
        ELSE ReturnsNone

EarnedIncomeRule(transaction) ==
    LET d == GetOrEmpty(transaction, "description")
        ty == GetDefaultEmpty(transaction, "type")
    IN  IF ~IsStr(d) \/ ~IsStr(ty) THEN Raises("AttributeError")
        ELSE LET desc == lower(strip(d.v))
                 txn_type == lower(strip(ty.v))
             IN  IF contains_any_keyword(desc, EARNED_KEYWORDS) \/ In("payroll", txn_type)
                 THEN Returns(SnapClassification(
                          "COUNTABLE_INCOME", "EARNED_INCOME", "WAGES_OR_PAYROLL",
                          "EARNED_INCOME_SOURCE", MEDIUM))
                 ELSE ReturnsNone

UnearnedIncomeRule(transaction) ==
    LET d == GetOrEmpty(transaction, "description")
    IN  IF ~IsStr(d) THEN Raises("AttributeError")
        ELSE LET desc == lower(strip(d.v))
             IN  IF contains_any_keyword(desc, UNEARNED_KEYWORDS)
                 THEN Returns(SnapClassification(
                          "COUNTABLE_INCOME", "UNEARNED_INCOME", "BENEFITS_OR_SUPPORT",
                          "UNEARNED_INCOME_SOURCE", MEDIUM))
                 ELSE ReturnsNone

BankInterestRule(transaction) ==
    LET d == GetOrEmpty(transaction, "description")
        ty == GetDefaultEmpty(transaction, "type")
    IN  IF ~IsStr(d) \/ ~IsStr(ty) THEN Raises("AttributeError")
        ELSE LET desc == lower(strip(d.v))
                 txn_type == lower(strip(ty.v))
             IN  IF contains_any_keyword(desc, BANK_INTEREST_KEYWORDS)
                        \/ In("interest", txn_type)
                 THEN Returns(SnapClassification(
                          "COUNTABLE_INCOME", "UNEARNED_INCOME", "BANK_INTEREST",
                          "BANK_INTEREST_IS_UNEARNED_INCOME", HIGH))
                 ELSE ReturnsNone

GiftOrIrregularRule(transaction) ==
    LET d == GetOrEmpty(transaction, "description")
    IN  IF ~IsStr(d) THEN Raises("AttributeError")
        ELSE LET desc == lower(strip(d.v))
             IN  IF In("gift", desc) \/ In("birthday", desc)
                 THEN Returns(SnapClassification(
                          "FLAG_FOR_REVIEW", None, None,
                          "POSSIBLE_GIFT_OR_IRREGULAR_INCOME", LOW))
                 ELSE ReturnsNone

\* Defective variant: the reason_code is left unset.
DefaultIncomeRule_NoReason(transaction) ==
    Returns(SnapClassification("FLAG_FOR_REVIEW", None, None, None, LOW))

DefaultIncomeRule(transaction) ==
    Returns(SnapClassification("FLAG_FOR_REVIEW", None, None, "UNKNOWN_SOURCE", LOW))

-----------------------------------------------------------------------------
(* snap_classification/rules.py: expense rules *)

MissingAmountRule(transaction) ==
    LET amount == GetAmount(transaction)
    IN  IF IsNone(amount)
        THEN Returns(ExpenseClassification(
                 "FLAG_FOR_REVIEW", None, None, "MISSING_AMOUNT", LOW))
        ELSE ReturnsNone

\* Defective variant: the amount signal is `amount <= 0`, so an amount of 0
\* counts as an expense.
NotExpenseRule_NonPositiveIsExpense(transaction) ==
    LET ty == GetOrEmpty(transaction, "type")
        amount == GetAmount(transaction)
        d == GetDefaultEmpty(transaction, "direction")
    IN  IF ~IsStr(ty) \/ ~IsStr(d) THEN Raises("AttributeError")
        ELSE LET txn_type == lower(strip(ty.v))
                 direction == upper(strip(d.v))
             IN  IF txn_type = EXPENSE \/ direction = OUTFLOW
                 THEN ReturnsNone
                 ELSE IF ~IsNum(amount) THEN Raises("TypeError")
                      ELSE IF amount.v <= 0
                           THEN ReturnsNone
                           ELSE Returns(ExpenseClassification(
                                    "NOT_EXPENSE", None, None,
                                    "NOT_AN_EXPENSE_TRANSACTION", HIGH))

\* Defective variant: the type hint is not one of the outflow signals.
NotExpenseRule_IgnoresType(transaction) ==
    LET ty == GetOrEmpty(transaction, "type")
        amount == GetAmount(transaction)
        d == GetDefaultEmpty(transaction, "direction")
    IN  IF ~IsStr(ty) \/ ~IsStr(d) THEN Raises("AttributeError")
        ELSE LET txn_type == lower(strip(ty.v))
                 direction == upper(strip(d.v))
             IN  IF direction = OUTFLOW
                 THEN ReturnsNone
                 ELSE IF ~IsNum(amount) THEN Raises("TypeError")
                      ELSE IF amount.v < 0
                           THEN ReturnsNone
                           ELSE Returns(ExpenseClassification(
                                    "NOT_EXPENSE", None, None,
                                    "NOT_AN_EXPENSE_TRANSACTION", HIGH))

NotExpenseRule(transaction) ==
    LET ty == GetOrEmpty(transaction, "type")
        amount == GetAmount(transaction)
        d == GetDefaultEmpty(transaction, "direction")
    IN  IF ~IsStr(ty) \/ ~IsStr(d) THEN Raises("AttributeError")
        ELSE LET txn_type == lower(strip(ty.v))
                 direction == upper(strip(d.v))
             IN  IF txn_type = EXPENSE \/ direction = OUTFLOW
                 THEN ReturnsNone
                 ELSE IF ~IsNum(amount) THEN Raises("TypeError")
                      ELSE IF amount.v < 0
                           THEN ReturnsNone
                           ELSE Returns(ExpenseClassification(
                                    "NOT_EXPENSE", None, None,
                                    "NOT_AN_EXPENSE_TRANSACTION", HIGH))

TransferKeywordsRule(transaction) ==
    LET d == GetOrEmpty(transaction, "description")
    IN  IF ~IsStr(d) THEN Raises("AttributeError")
        ELSE LET desc == lower(strip(d.v))
             IN  IF contains_any_keyword(desc, TRANSFER_KEYWORDS)
                 THEN Returns(ExpenseClassification(
                          "NOT_EXPENSE", None, None, "INTERNAL_TRANSFER", MEDIUM))
                 ELSE ReturnsNone

CreditCardPaymentRule(transaction) ==
    LET d == GetOrEmpty(transaction, "description")
    IN  IF ~IsStr(d) THEN Raises("AttributeError")
        ELSE LET desc == lower(strip(d.v))
             IN  IF contains_any_keyword(desc, CREDIT_CARD_PAYMENT_KEYWORDS)
                 THEN Returns(ExpenseClassification(
                          "NOT_DEDUCTIBLE", "NONE", "CREDIT_CARD_PAYMENT",
                          "PAYING_DEBT_NOT_DEDUCTION", MEDIUM))
                 ELSE ReturnsNone

\* Defective variant: the description and the merchant name are trimmed but
\* not lower-cased before the keyword search.
ShelterRule_CaseSensitive(transaction) ==
    LET d == GetOrEmpty(transaction, "description")
        m == GetOrEmpty(transaction, "merchant_name")
        plaid_category == Get(transaction, "personal_finance_category", Dict(EmptyDict))
    IN  IF ~IsStr(d) \/ ~IsStr(m) \/ ~IsDict(plaid_category)
        THEN Raises("AttributeError")
        ELSE LET desc == strip(d.v)
                 merchant_name == strip(m.v)
                 is_rent_category ==
                     /\ In("RENT_AND_UTILITIES",
                           str(Get(plaid_category.v, "primary", Str(""))))
                     /\ In("RENT", str(Get(plaid_category.v, "detailed", Str(""))))
             IN  IF \/ is_rent_category
                    \/ contains_any_keyword(desc, SHELTER_KEYWORDS)
                    \/ contains_any_keyword(merchant_name, SHELTER_KEYWORDS)
                 THEN IF In("mortgage", desc) \/ In("mtg", desc)
                      THEN Returns(ExpenseClassification(
                               "COUNTABLE_DEDUCTION", "SHELTER", "MORTGAGE",
                               "SHELTER_COST", MEDIUM))
                      ELSE Returns(ExpenseClassification(
                               "COUNTABLE_DEDUCTION", "SHELTER", "RENT",
                               "SHELTER_COST", MEDIUM))
                 ELSE ReturnsNone

ShelterRule(transaction) ==
    LET d == GetOrEmpty(transaction, "description")
        m == GetOrEmpty(transaction, "merchant_name")
        plaid_category == Get(transaction, "personal_finance_category", Dict(EmptyDict))
    IN  IF ~IsStr(d) \/ ~IsStr(m) \/ ~IsDict(plaid_category)
        THEN Raises("AttributeError")
        ELSE LET desc == lower(strip(d.v))
                 merchant_name == lower(strip(m.v))
                 is_rent_category ==
                     /\ In("RENT_AND_UTILITIES",
                           str(Get(plaid_category.v, "primary", Str(""))))
                     /\ In("RENT", str(Get(plaid_category.v, "detailed", Str(""))))
             IN  IF \/ is_rent_category
                    \/ contains_any_keyword(desc, SHELTER_KEYWORDS)
                    \/ contains_any_keyword(merchant_name, SHELTER_KEYWORDS)
                 THEN IF In("mortgage", desc) \/ In("mtg", desc)
                      THEN Returns(ExpenseClassification(
                               "COUNTABLE_DEDUCTION", "SHELTER", "MORTGAGE",
                               "SHELTER_COST", MEDIUM))
                      ELSE Returns(ExpenseClassification(
                               "COUNTABLE_DEDUCTION", "SHELTER", "RENT",
                               "SHELTER_COST", MEDIUM))
                 ELSE ReturnsNone

\* Defective variant: the electric keywords are tested before the internet
\* keywords.
UtilitiesRule_ElectricFirst(transaction) ==
    LET d == GetOrEmpty(transaction, "description")
        m == GetOrEmpty(transaction, "merchant_name")
        plaid_category == Get(transaction, "personal_finance_category", Dict(EmptyDict))
    IN  IF ~IsStr(d) \/ ~IsStr(m) THEN Raises("AttributeError")
        ELSE LET desc == lower(strip(d.v))
                 merchant_name == lower(strip(m.v))
                 is_utility_category_result == is_utility_category(plaid_category)
                 matches_utility_keyword_result ==
                     matches_utility_keyword(desc, merchant_name)
             IN  IF is_utility_category_result \/ matches_utility_keyword_result
                 THEN IF contains_any_keyword(desc, ELECTRIC_KEYWORDS)
                      THEN Returns(ExpenseClassification(
                               "COUNTABLE_DEDUCTION", "UTILITIES", "ELECTRIC",
                               "UTILITY_EXPENSE_SUA_EVIDENCE", MEDIUM))
                      ELSE IF contains_any_keyword(desc, INTERNET_KEYWORDS)
                      THEN Returns(ExpenseClassification(
                               "COUNTABLE_DEDUCTION", "UTILITIES", "INTERNET_OR_PHONE",
                               "UTILITY_EXPENSE_SUA_EVIDENCE", MEDIUM))
                      ELSE IF contains_any_keyword(desc, GAS_KEYWORDS)
                      THEN Returns(ExpenseClassification(
                               "COUNTABLE_DEDUCTION", "UTILITIES", "GAS",
                               "UTILITY_EXPENSE_SUA_EVIDENCE", MEDIUM))
                      ELSE Returns(ExpenseClassification(
                               "COUNTABLE_DEDUCTION", "UTILITIES", "UTILITIES_OTHER",
                               "UTILITY_EXPENSE_SUA_EVIDENCE", LOW))
                 ELSE ReturnsNone

UtilitiesRule(transaction) ==
    LET d == GetOrEmpty(transaction, "description")
        m == GetOrEmpty(transaction, "merchant_name")
        plaid_category == Get(transaction, "personal_finance_category", Dict(EmptyDict))
    IN  IF ~IsStr(d) \/ ~IsStr(m) THEN Raises("AttributeError")
        ELSE LET desc == lower(strip(d.v))
                 merchant_name == lower(strip(m.v))
                 is_utility_category_result == is_utility_category(plaid_category)
                 matches_utility_keyword_result ==
                     matches_utility_keyword(desc, merchant_name)
             IN  IF is_utility_category_result \/ matches_utility_keyword_result
                 THEN IF contains_any_keyword(desc, INTERNET_KEYWORDS)
                      THEN Returns(ExpenseClassification(
                               "COUNTABLE_DEDUCTION", "UTILITIES", "INTERNET_OR_PHONE",
                               "UTILITY_EXPENSE_SUA_EVIDENCE", MEDIUM))
                      ELSE IF contains_any_keyword(desc, ELECTRIC_KEYWORDS)
                      THEN Returns(ExpenseClassification(
                               "COUNTABLE_DEDUCTION", "UTILITIES", "ELECTRIC",
                               "UTILITY_EXPENSE_SUA_EVIDENCE", MEDIUM))
                      ELSE IF contains_any_keyword(desc, GAS_KEYWORDS)
                      THEN Returns(ExpenseClassification(
                               "COUNTABLE_DEDUCTION", "UTILITIES", "GAS",
                               "UTILITY_EXPENSE_SUA_EVIDENCE", MEDIUM))
                      ELSE Returns(ExpenseClassification(
                               "COUNTABLE_DEDUCTION", "UTILITIES", "UTILITIES_OTHER",
                               "UTILITY_EXPENSE_SUA_EVIDENCE", LOW))
                 ELSE ReturnsNone

ChildcareRule(transaction) ==
    LET d == GetOrEmpty(transaction, "description")
    IN  IF ~IsStr(d) THEN Raises("AttributeError")
        ELSE LET desc == lower(strip(d.v))
             IN  IF contains_any_keyword(desc, CHILDCARE_KEYWORDS)
                 THEN Returns(ExpenseClassification(
                          "COUNTABLE_DEDUCTION", "CHILDCARE", "DEPENDENT_CARE",
                          "DEPENDENT_CARE_IF_WORK_OR_TRAINING", MEDIUM))
                 ELSE ReturnsNone

\* Defective variant: a medical expense is counted like the other deductions.
MedicalRule_AutoCounted(transaction) ==
    LET d == GetOrEmpty(transaction, "description")
    IN  IF ~IsStr(d) THEN Raises("AttributeError")
        ELSE LET desc == lower(strip(d.v))
             IN  IF contains_any_keyword(desc, MEDICAL_KEYWORDS)
                 THEN Returns(ExpenseClassification(
                          "COUNTABLE_DEDUCTION", "MEDICAL", "MEDICAL_EXPENSE",
                          "MEDICAL_DEDUCTION_ONLY_IF_ELDERLY_OR_DISABLED", MEDIUM))
                 ELSE ReturnsNone

MedicalRule(transaction) ==
    LET d == GetOrEmpty(transaction, "description")
    IN  IF ~IsStr(d) THEN Raises("AttributeError")
        ELSE LET desc == lower(strip(d.v))
             IN  IF contains_any_keyword(desc, MEDICAL_KEYWORDS)
                 THEN Returns(ExpenseClassification(
                          "FLAG_FOR_REVIEW", "MEDICAL", "MEDICAL_EXPENSE",
                          "MEDICAL_DEDUCTION_ONLY_IF_ELDERLY_OR_DISABLED", LOW))
                 ELSE ReturnsNone

ChildSupportRule(transaction) ==
    LET d == GetOrEmpty(transaction, "description")
    IN  IF ~IsStr(d) THEN Raises("AttributeError")
        ELSE LET desc == lower(strip(d.v))
             IN  IF contains_any_keyword(desc, CHILD_SUPPORT_KEYWORDS)
                 THEN Returns(ExpenseClassification(
                          "COUNTABLE_DEDUCTION", "CHILD_SUPPORT_PAID", "CHILD_SUPPORT",
                          "CHILD_SUPPORT_PAYMENT", MEDIUM))
                 ELSE ReturnsNone

\* Defective variant: the expense fallback carries confidence LOW.
DefaultExpenseRule_Low(transaction) ==
    Returns(ExpenseClassification(
        "NOT_DEDUCTIBLE", None, None, "NOT_A_COUNTABLE_DEDUCTION", LOW))

DefaultExpenseRule(transaction) ==
    Returns(ExpenseClassification(
        "NOT_DEDUCTIBLE", None, None, "NOT_A_COUNTABLE_DEDUCTION", MEDIUM))

-----------------------------------------------------------------------------
(* snap_classification/classifiers.py *)

\* Defective variant: the two keyword guards come after the countable-income
\* rules.
IncomeRuleNames_GuardsLast ==
    <<"NotInflowOrNegativeAmountRule", "EarnedIncomeRule", "UnearnedIncomeRule",
      "BankInterestRule", "NotIncomeKeywordsRule", "ExcludeKeywordsRule",
      "GiftOrIrregularRule">>

\* The rule objects are stateless instances; a chain holds them by class.
IncomeRuleNames ==
    <<"NotInflowOrNegativeAmountRule", "NotIncomeKeywordsRule", "ExcludeKeywordsRule",
      "EarnedIncomeRule", "UnearnedIncomeRule", "BankInterestRule",
      "GiftOrIrregularRule">>

\* Defective variant: the transfer and credit-card guards come after the
\* deduction rules.
ExpenseRuleNames_TransferLast ==
    <<"MissingAmountRule", "NotExpenseRule", "ShelterRule", "UtilitiesRule",
      "ChildcareRule", "MedicalRule", "ChildSupportRule", "TransferKeywordsRule",
      "CreditCardPaymentRule">>

ExpenseRuleNames ==
    <<"MissingAmountRule", "NotExpenseRule", "TransferKeywordsRule",
      "CreditCardPaymentRule", "ShelterRule", "UtilitiesRule", "ChildcareRule",
      "MedicalRule", "ChildSupportRule">>

\* rule.evaluate(transaction)
evaluate(rule, transaction) ==
    CASE rule = "NotInflowOrNegativeAmountRule" -> NotInflowOrNegativeAmountRule(transaction)
      [] rule = "NotIncomeKeywordsRule" -> NotIncomeKeywordsRule(transaction)
      [] rule = "ExcludeKeywordsRule" -> ExcludeKeywordsRule(transaction)
      [] rule = "EarnedIncomeRule" -> EarnedIncomeRule(transaction)
      [] rule = "UnearnedIncomeRule" -> UnearnedIncomeRule(transaction)
      [] rule = "BankInterestRule" -> BankInterestRule(transaction)
      [] rule = "GiftOrIrregularRule" -> GiftOrIrregularRule(transaction)
      [] rule = "DefaultIncomeRule" -> DefaultIncomeRule(transaction)
      [] rule = "MissingAmountRule" -> MissingAmountRule(transaction)
      [] rule = "NotExpenseRule" -> NotExpenseRule(transaction)
      [] rule = "TransferKeywordsRule" -> TransferKeywordsRule(transaction)
      [] rule = "CreditCardPaymentRule" -> CreditCardPaymentRule(transaction)
      [] rule = "ShelterRule" -> ShelterRule(transaction)
      [] rule = "UtilitiesRule" -> UtilitiesRule(transaction)
      [] rule = "ChildcareRule" -> ChildcareRule(transaction)
      [] rule = "MedicalRule" -> MedicalRule(transaction)
      [] rule = "ChildSupportRule" -> ChildSupportRule(transaction)
      [] rule = "DefaultExpenseRule" -> DefaultExpenseRule(transaction)

\* Defective variant: the loop does not return at the first verdict, so the
\* last rule that matches decides.
RECURSIVE FirstResult_LastMatch(_, _, _)
FirstResult_LastMatch(rules, transaction, i) ==
    IF i > Len(rules) THEN ReturnsNone
    ELSE LET r == evaluate(rules[i], transaction)
             rest == FirstResult_LastMatch(rules, transaction, i + 1)
         IN  IF r.kind = "raise" THEN r
             ELSE IF rest.kind = "None" THEN r ELSE rest

\* for rule in rules: result = rule.evaluate(transaction);
\*                    if result is not None: return result
\* from position i on; an exception raised by a rule leaves the loop with it.
RECURSIVE FirstResult(_, _, _)
FirstResult(rules, transaction, i) ==
    IF i > Len(rules) THEN ReturnsNone
    ELSE LET r == evaluate(rules[i], transaction)
         IN  IF r.kind = "None" THEN FirstResult(rules, transaction, i + 1) ELSE r

classify_income(rules, transaction) ==
    LET r == FirstResult(rules, transaction, 1)
    IN  IF r.kind = "None" THEN evaluate("DefaultIncomeRule", transaction) ELSE r

classify_expense(rules, transaction) ==
    LET r == FirstResult(rules, transaction, 1)
    IN  IF r.kind = "None" THEN evaluate("DefaultExpenseRule", transaction) ELSE r

-----------------------------------------------------------------------------
(* The transactions classified: sample values of every field, absent and   *)
(* null included.                                                          *)

Descriptions ==
    {"XCEL ENERGY", "ACME PAYROLL DIRECT DEPOSIT", "REFUND TRANSFER TO SAVINGS",
     "INTEREST EARNED", "RANDOM MERCHANT XYZ", "  Transfer rent ", "PAYROLL REFUND",
     "COMCAST ELECTRIC", "WELLS FARGO MTG", "CVS PHARMACY", "KINDERCARE",
     "CHILD SUPPORT", "BIRTHDAY GIFT", "CC PAYMENT", "RENT PAYMENT", "rent payment",
     "CON EDISON", "NATIONAL GRID", ""}

DescriptionValues == {Absent, PyNone} \cup {Str(s) : s \in Descriptions}

AmountValues == {Absent, PyNone, Num(-8500), Num(0), Num(4000)}

DirectionValues ==
    {Absent, PyNone, Str("INFLOW"), Str("OUTFLOW"), Str(" inflow "), Str("DEBIT"),
     Str("")}

TypeValues ==
    {Absent, PyNone, Str("income"), Str("expense"), Str("payroll"), Str("interest")}

MerchantValues ==
    {Absent, PyNone, Str("Xcel Energy"), Str("Greystar Apartments"),
     Str("City Power"), Str("Wells Fargo Home Mortgage")}

CategoryValues ==
    {Absent, PyNone, Dict(EmptyDict),
     Dict(MakeDict([primary |-> Str("RENT_AND_UTILITIES"),
                    detailed |-> Str("RENT_AND_UTILITIES_GAS_AND_ELECTRICITY")])),
     Dict(MakeDict([primary |-> Str("RENT_AND_UTILITIES"),
                    detailed |-> Str("RENT_AND_UTILITIES_RENT")])),
     Dict(MakeDict([primary |-> Str("FOOD_AND_DRINK"),
                    detailed |-> Str("FOOD_AND_DRINK_GROCERIES")])),
     Dict(MakeDict([primary |-> Str("RENT_AND_UTILITIES"), detailed |-> Absent])),
     Dict(MakeDict([primary |-> Str("Utilities"), detailed |-> PyNone]))}

Transaction(description, amount, direction, type, merchant_name, category) ==
    MakeDict([description |-> description, amount |-> amount, direction |-> direction,
              type |-> type, merchant_name |-> merchant_name,
              personal_finance_category |-> category])

\* Transactions as document extraction yields them: no enrichment fields.
PlainTransactions ==
    {Transaction(d, a, dir, ty, Absent, Absent) :
        d \in DescriptionValues, a \in AmountValues, dir \in DirectionValues,
        ty \in TypeValues}

\* Transactions merged with enrichment data.
EnrichedTransactions ==
    {Transaction(d, a, dir, ty, m, c) :
        d \in {Absent, Str("XCEL ENERGY"), Str("RANDOM MERCHANT XYZ"),
               Str("  Transfer rent "), Str("WELLS FARGO MTG")},
        a \in {Absent, Num(-8500), Num(4000)},
        dir \in {Str("INFLOW"), Str("OUTFLOW"), Str("")},
        ty \in {Absent, Str("expense")},
        m \in MerchantValues, c \in CategoryValues}

Transactions == PlainTransactions \cup EnrichedTransactions

-----------------------------------------------------------------------------
(* The state machine: a caller classifies a transaction, repeatedly.        *)

Classifiers == {"classify_income", "classify_expense"}

ChainOf(f) == IF f = "classify_income" THEN IncomeRuleNames ELSE ExpenseRuleNames
DefaultOf(f) == IF f = "classify_income" THEN "DefaultIncomeRule" ELSE "DefaultExpenseRule"

Callers == 1..NumCallers

\* A caller that is not inside a classifier.
Idle == [pc |-> "idle"]

\* No request to the upload endpoint.
NoUpload == [pc |-> "none"]

Init ==
    /\ txn \in Transactions
    /\ INCOME_RULES = IncomeRuleNames
    /\ EXPENSE_RULES = ExpenseRuleNames
    /\ history = <<>>
    /\ result = NoCall
    /\ first = [f \in Classifiers |-> NoCall]
    /\ classification = NoCall
    /\ serialized = NoCall
    /\ threads = [c \in Callers |-> Idle]
    /\ upload = NoUpload

\* Defective variant: the loop consumes the list it iterates (rules.pop(0)).
RulesAfterCall_Consumed(rules, transaction) ==
    IF rules = <<>> THEN rules ELSE Tail(rules)

\* The loop of a classifier reads the rule list and the transaction and
\* assigns to neither.
RulesAfterCall(rules, transaction) == rules
\* Defective variant: a rule fills in the amount it read
\* (transaction.setdefault("amount", 0)).
TransactionAfterCall_AmountFilledIn(rules, transaction) ==
    IF "amount" \in DOMAIN transaction THEN transaction
    ELSE [k \in DOMAIN transaction \cup {"amount"} |->
            IF k = "amount" THEN Num(0) ELSE transaction[k]]

TransactionAfterCall(rules, transaction) == transaction

\* The classifier called last ("none" before any call).
op == IF history = <<>> THEN "none" ELSE history[Len(history)]

calls == Len(history)

ClassifyIncome ==
    /\ calls < MaxCalls
    /\ result' = classify_income(INCOME_RULES, txn)
    /\ history' = Append(history, "classify_income")
    /\ first' = IF first["classify_income"] = NoCall
                THEN [first EXCEPT !["classify_income"] = result']
                ELSE first
    /\ INCOME_RULES' = RulesAfterCall(INCOME_RULES, txn)
    /\ txn' = TransactionAfterCall(INCOME_RULES, txn)
    /\ UNCHANGED <<EXPENSE_RULES, classification, serialized, threads, upload>>

ClassifyExpense ==
    /\ calls < MaxCalls
    /\ result' = classify_expense(EXPENSE_RULES, txn)
    /\ history' = Append(history, "classify_expense")
    /\ first' = IF first["classify_expense"] = NoCall
                THEN [first EXCEPT !["classify_expense"] = result']
                ELSE first
    /\ EXPENSE_RULES' = RulesAfterCall(EXPENSE_RULES, txn)
    /\ txn' = TransactionAfterCall(EXPENSE_RULES, txn)
    /\ UNCHANGED <<INCOME_RULES, classification, serialized, threads, upload>>

Next == ClassifyIncome \/ ClassifyExpense

Spec == Init /\ [][Next]_vars

-----------------------------------------------------------------------------
(* The state machine of serialization: a caller builds a classification    *)
(* and calls to_dict on it.                                                *)

\* Values of the free-text fields category and reason_code: unset, empty,
\* and values the rules use.
SnapTextValues == {None, "", "BANK_INTEREST"}
ExpenseTextValues == {None, "", "RENT"}

SnapClassifications ==
    {SnapClassification(s, t, c, r, k) :
        s \in IncomeState, t \in IncomeType \cup {None}, c \in SnapTextValues,
        r \in SnapTextValues, k \in Confidence}

ExpenseClassifications ==
    {ExpenseClassification(s, t, c, r, k) :
        s \in ExpenseState, t \in DeductionType \cup {None}, c \in ExpenseTextValues,
        r \in ExpenseTextValues, k \in Confidence}

InitToDict ==
    /\ classification \in SnapClassifications \cup ExpenseClassifications
    /\ serialized = NoCall
    /\ txn = MakeDict([description |-> Absent])
    /\ INCOME_RULES = IncomeRuleNames
    /\ EXPENSE_RULES = ExpenseRuleNames
    /\ history = <<>>
    /\ result = NoCall
    /\ first = [f \in Classifiers |-> NoCall]
    /\ threads = [c \in Callers |-> Idle]
    /\ upload = NoUpload

IsSnapClassification(c) == "income_type" \in DOMAIN c

\* classification.to_dict()
ToDict ==
    /\ serialized = NoCall
    /\ serialized' =
           IF IsSnapClassification(classification)
           THEN Returns(SnapClassification_to_dict(classification))
           ELSE Returns(ExpenseClassification_to_dict(classification))
    /\ UNCHANGED <<classification, txn, INCOME_RULES, EXPENSE_RULES, history, result,
                   first, threads, upload>>

NextToDict == ToDict

SpecToDict == InitToDict /\ [][NextToDict]_vars

-----------------------------------------------------------------------------
(* The state machine of concurrent callers: each caller classifies one     *)
(* transaction of a batch; a step of a caller is one turn of the loop of   *)
(* the classifier it is in, on its own locals and the shared rule lists.   *)

BatchTransactions ==
    {Transaction(Str("ACME PAYROLL DIRECT DEPOSIT"), Num(4000), Str("INFLOW"),
                 Absent, Absent, Absent),
     Transaction(Str("XCEL ENERGY"), Num(-8500), Str("OUTFLOW"), Str("expense"),
                 Absent, Absent),
     Transaction(Str("RANDOM MERCHANT XYZ"), Num(4000), Str("OUTFLOW"), Absent,
                 Absent, Absent),
     Transaction(Str("BIRTHDAY GIFT"), PyNone, Str("INFLOW"), Absent, Absent,
                 Absent)}

InitConcurrent ==
    /\ threads = [c \in Callers |-> Idle]
    /\ upload = NoUpload
    /\ INCOME_RULES = IncomeRuleNames
    /\ EXPENSE_RULES = ExpenseRuleNames
    /\ txn = MakeDict([description |-> Absent])
    /\ history = <<>>
    /\ result = NoCall
    /\ first = [f \in Classifiers |-> NoCall]
    /\ classification = NoCall
    /\ serialized = NoCall

\* The shared list a classifier iterates.
RulesOf(f) == IF f = "classify_income" THEN INCOME_RULES ELSE EXPENSE_RULES

\* Caller c enters classifier f with a transaction of the batch.
Call(c) ==
    /\ threads[c].pc = "idle"
    /\ \E f \in Classifiers, t \in BatchTransactions :
           threads' = [threads EXCEPT ![c] =
                          [pc |-> "loop", f |-> f, transaction |-> t, i |-> 1]]
    /\ UNCHANGED <<INCOME_RULES, EXPENSE_RULES, txn, history, result, first,
                   classification, serialized, upload>>

\* The call of caller c ends with outcome out.
Leave(c, out) ==
    LET f == threads[c].f
        t == threads[c].transaction
    IN  /\ threads' = [threads EXCEPT ![c] =
                          [pc |-> "done", f |-> f, transaction |-> t, out |-> out]]
        /\ INCOME_RULES' = IF f = "classify_income"
                           THEN RulesAfterCall(INCOME_RULES, t) ELSE INCOME_RULES
        /\ EXPENSE_RULES' = IF f = "classify_expense"
                            THEN RulesAfterCall(EXPENSE_RULES, t) ELSE EXPENSE_RULES

\* One turn of the loop: the next rule of the shared list is evaluated; a
\* verdict (or an exception) ends the call, None moves on.
Evaluate(c) ==
    /\ threads[c].pc = "loop"
    /\ threads[c].i <= Len(RulesOf(threads[c].f))
    /\ LET r == evaluate(RulesOf(threads[c].f)[threads[c].i], threads[c].transaction)
       IN  IF r.kind = "None"
           THEN /\ threads' = [threads EXCEPT ![c].i = @ + 1]
                /\ UNCHANGED <<INCOME_RULES, EXPENSE_RULES>>
           ELSE Leave(c, r)
    /\ UNCHANGED <<txn, history, result, first, classification, serialized, upload>>

\* The loop is exhausted: the default rule answers.
ReturnDefault(c) ==
    /\ threads[c].pc = "loop"
    /\ threads[c].i > Len(RulesOf(threads[c].f))
    /\ Leave(c, evaluate(DefaultOf(threads[c].f), threads[c].transaction))
    /\ UNCHANGED <<txn, history, result, first, classification, serialized, upload>>

NextConcurrent == \E c \in Callers : Call(c) \/ Evaluate(c) \/ ReturnDefault(c)

SpecConcurrent == InitConcurrent /\ [][NextConcurrent]_vars

-----------------------------------------------------------------------------
(* The state machine of a rule called on its own: a caller hands a         *)
(* transaction to the evaluate method of one rule, outside any chain.      *)

AllRules ==
    {IncomeRuleNames[i] : i \in 1..Len(IncomeRuleNames)}
        \cup {ExpenseRuleNames[i] : i \in 1..Len(ExpenseRuleNames)}
        \cup {"DefaultIncomeRule", "DefaultExpenseRule"}

InitRule ==
    /\ txn \in Transactions
    /\ INCOME_RULES = IncomeRuleNames
    /\ EXPENSE_RULES = ExpenseRuleNames
    /\ history = <<>>
    /\ result = NoCall
    /\ first = [f \in Classifiers |-> NoCall]
    /\ classification = NoCall
    /\ serialized = NoCall
    /\ threads = [c \in Callers |-> Idle]
    /\ upload = NoUpload

\* rule.evaluate(transaction), for one rule
EvaluateAlone ==
    /\ history = <<>>
    /\ \E r \in AllRules :
           /\ result' = evaluate(r, txn)
           /\ history' = <<r>>
           /\ txn' = TransactionAfterCall(<<r>>, txn)
    /\ UNCHANGED <<INCOME_RULES, EXPENSE_RULES, first, classification, serialized,
                   threads, upload>>

NextRule == EvaluateAlone

SpecRule == InitRule /\ [][NextRule]_vars

-----------------------------------------------------------------------------
(* models.py: BankStatementResult *)

\* BankStatementResult(transactions, total_expenses, total_income, period,
\*                     error=None); totals are whole cents.
BankStatementResult(transactions, total_expenses, total_income, period, error) ==
    [transactions |-> transactions, total_expenses |-> total_expenses,
     total_income |-> total_income, period |-> period, error |-> error]

\* BankStatementResult.to_dict: the error is added only when it is truthy.
BankStatementResult_to_dict(self) ==
    LET keys == {"transactions", "totalExpenses", "totalIncome", "period"}
                    \cup (IF self.error \notin {None, ""} THEN {"error"} ELSE {})
    IN  [k \in keys |->
            CASE k = "transactions" -> self.transactions
              [] k = "totalExpenses" -> self.total_expenses
              [] k = "totalIncome" -> self.total_income
              [] k = "period" -> self.period
              [] k = "error" -> self.error]

-----------------------------------------------------------------------------
(* bank_statement_processing.py *)

\* A JSON array as a Python list.
List(s) == [t |-> "list", v |-> s]

\* The text the extraction service answers with, by what json.loads makes
\* of it (after the markdown fence, if any, is cut away): not JSON, a JSON
\* value that is not an object, or a JSON object.
Malformed == [json |-> "invalid"]
NotAnObject == [json |-> "array"]
Document(d) == [json |-> "object", v |-> d]

\* json.loads(response_text)
json_loads(response) ==
    IF response.json = "invalid" THEN Raises("JSONDecodeError")
    ELSE Returns(response)

\* The sum of the numbers of a sequence.
RECURSIVE Sum(_)
Sum(s) == IF s = <<>> THEN 0 ELSE Head(s) + Sum(Tail(s))

\* Defective variant: the amounts of all transactions are added up,
\* whatever their type.
SumOfType_AllTypes(transactions, type) ==
    LET amounts == [i \in 1..Len(transactions) |->
                        Get(transactions[i], "amount", Num(0))]
    IN  IF \E i \in 1..Len(amounts) : ~IsNum(amounts[i]) THEN Raises("TypeError")
        ELSE Returns(Sum([i \in 1..Len(amounts) |-> amounts[i].v]))

\* sum(t.get("amount", 0) for t in transactions if t.get("type") == type):
\* adding None to a number raises.
SumOfType(transactions, type) ==
    LET selected == SelectSeq(transactions,
                              LAMBDA t : Get(t, "type", PyNone) = Str(type))
        amounts == [i \in 1..Len(selected) |-> Get(selected[i], "amount", Num(0))]
    IN  IF \E i \in 1..Len(amounts) : ~IsNum(amounts[i]) THEN Raises("TypeError")
        ELSE Returns(Sum([i \in 1..Len(amounts) |-> amounts[i].v]))

\* Defective variant: the direction the extraction gave is kept when there
\* is one.
ForcedDirection_KeptWhenGiven(transaction) ==
    IF "direction" \in DOMAIN transaction /\ IsStr(transaction["direction"])
    THEN transaction["direction"].v
    ELSE IF Get(transaction, "type", PyNone) = Str("income") THEN INFLOW ELSE OUTFLOW

\* direction = "INFLOW" if txn.get("type") == "income" else "OUTFLOW"
ForcedDirection(transaction) ==
    IF Get(transaction, "type", PyNone) = Str("income") THEN INFLOW ELSE OUTFLOW

\* {**txn, "direction": direction}
WithDirection(transaction) ==
    [k \in DOMAIN transaction \cup {"direction"} |->
        IF k = "direction" THEN Str(ForcedDirection(transaction)) ELSE transaction[k]]

\* txn["snap_classification"] = classification.to_dict(): the transaction
\* with the key set, or the exception the classifier raised.
SetClassification(transaction, isIncome, c) ==
    IF c.kind = "raise" THEN c
    ELSE Returns([k \in DOMAIN transaction \cup {"snap_classification"} |->
                     IF k = "snap_classification"
                     THEN Dict(IF isIncome THEN SnapClassification_to_dict(c.value)
                               ELSE ExpenseClassification_to_dict(c.value))
                     ELSE transaction[k]])

\* The body of the loop over the transactions: the transaction is classified
\* as income when its type is "income" and as an expense otherwise, with the
\* forced direction.
AttachClassification(income_rules, expense_rules, transaction) ==
    SetClassification(
        transaction, Get(transaction, "type", PyNone) = Str("income"),
        IF Get(transaction, "type", PyNone) = Str("income")
        THEN classify_income(income_rules, WithDirection(transaction))
        ELSE classify_expense(expense_rules, WithDirection(transaction)))

\* One more pass of the loop: the first exception leaves the loop.
Then(head, rest) ==
    IF head.kind = "raise" THEN head
    ELSE IF rest.kind = "raise" THEN rest
    ELSE Returns(<<head.value>> \o rest.value)

\* for txn in transactions: ..., from position i on.
RECURSIVE ClassifyAll(_, _, _, _)
ClassifyAll(income_rules, expense_rules, transactions, i) ==
    IF i > Len(transactions) THEN Returns(<<>>)
    ELSE Then(AttachClassification(income_rules, expense_rules, transactions[i]),
              ClassifyAll(income_rules, expense_rules, transactions, i + 1))

\* return BankStatementResult(...) at the end of the try block, unless a
\* sum or a classifier raised before.
ResultOf(expenses, income, classified, period) ==
    IF expenses.kind = "raise" THEN expenses
    ELSE IF income.kind = "raise" THEN income
    ELSE IF classified.kind = "raise" THEN classified
    ELSE Returns(BankStatementResult(
             classified.value, expenses.value, income.value, period, None))

\* process_bank_statement, from the answer of the extraction service on.
\* api_key: GEMINI_API_KEY is set.
process_bank_statement(api_key, response, income_rules, expense_rules) ==
    IF ~api_key THEN Raises("ValueError")
    ELSE
    LET parsed == json_loads(response)
    IN  IF parsed.kind = "raise"
        THEN Returns(BankStatementResult(
                 <<>>, 0, 0, "", "Failed to parse Gemini response"))
        ELSE IF parsed.value.json # "object" THEN Raises("AttributeError")
        ELSE
        LET doc == parsed.value.v
            transactions == Get(doc, "transactions", List(<<>>)).v
            total_expenses == Get(doc, "totalExpenses", Num(0))
            total_income == Get(doc, "totalIncome", Num(0))
            period == Get(doc, "period", Str("")).v
            recompute == ~Truthy(total_expenses) \/ ~Truthy(total_income)
        IN  ResultOf(IF recompute THEN SumOfType(transactions, "expense")
                     ELSE Returns(total_expenses.v),
                     IF recompute THEN SumOfType(transactions, "income")
                     ELSE Returns(total_income.v),
                     ClassifyAll(income_rules, expense_rules, transactions, 1),
                     period)

-----------------------------------------------------------------------------
(* main.py: upload_bank_statement *)

\* filename.split(".")[-1]
RECURSIVE LastPart(_)
LastPart(s) ==
    IF ~In(".", s) THEN s
    ELSE LET i == CHOOSE j \in 1..Len(s) : CharAt(s, j) = "." /\
                      \A k \in 1..(j - 1) : CharAt(s, k) # "."
         IN  LastPart(SubSeq(s, i + 1, Len(s)))

\* Defective variant: the part after the first dot is taken
\* (filename.split(".")[1]).
file_ext_FirstDot(filename) ==
    IF In(".", filename)
    THEN LET i == CHOOSE j \in 1..Len(filename) : CharAt(filename, j) = "." /\
                      \A k \in 1..(j - 1) : CharAt(filename, k) # "."
             rest == SubSeq(filename, i + 1, Len(filename))
             n == IF In(".", rest)
                  THEN (CHOOSE j \in 1..Len(rest) : CharAt(rest, j) = "." /\
                           \A k \in 1..(j - 1) : CharAt(rest, k) # ".") - 1
                  ELSE Len(rest)
         IN  "." \o lower(SubSeq(rest, 1, n))
    ELSE ""

\* "." + file.filename.split(".")[-1].lower() if "." in file.filename else ""
file_ext(filename) ==
    IF In(".", filename) THEN "." \o lower(LastPart(filename)) ELSE ""

allowed_extensions == {".pdf", ".png", ".jpg", ".jpeg"}

\* raise HTTPException(status_code, detail) / return body
HTTPException(status_code, detail) == [status |-> status_code, detail |-> detail]
Ok(body) == [status |-> 200, body |-> body]

\* Defective variant: a result is returned as it is, error or not.
Answer_ErrorNotChecked(processed) ==
    IF processed.kind = "raise"
    THEN HTTPException(500, "Error processing bank statement")
    ELSE Ok(BankStatementResult_to_dict(processed.value))

\* The try block after the call of process_bank_statement: a result that
\* carries an error and any exception become a 500.
Answer(processed) ==
    IF processed.kind = "raise"
    THEN HTTPException(500, "Error processing bank statement")
    ELSE IF processed.value.error \notin {None, ""}
    THEN HTTPException(500, processed.value.error)
    ELSE Ok(BankStatementResult_to_dict(processed.value))

-----------------------------------------------------------------------------
(* The state machine of an upload: the endpoint validates the file name,   *)
(* calls process_bank_statement and answers.                               *)

Filenames ==
    {"statement.pdf", "scan.PNG", "photo.jpg", "photo.jpeg", "notes.txt",
     "statement.pdf.exe", "archive.tar.gz", "pdf", "statement.", ""}

StatementTransactions ==
    {Transaction(Str("ACME PAYROLL DIRECT DEPOSIT"), Num(500000), Absent,
                 Str("income"), Absent, Absent),
     Transaction(Str("RENT PAYMENT"), Num(12550), Absent, Str("expense"), Absent,
                 Absent),
     Transaction(Str("RANDOM MERCHANT XYZ"), Num(4000), Absent, Absent, Absent,
                 Absent),
     Transaction(Str("XCEL ENERGY"), PyNone, Absent, Str("expense"), Absent, Absent),
     Transaction(Str("BIRTHDAY GIFT"), PyNone, Absent, Str("income"), Absent, Absent),
     Transaction(Str("INTEREST EARNED"), Num(150), Str("INFLOW"), Str("Income"),
                 Absent, Absent),
     Transaction(Str("CVS PHARMACY"), Num(0), Str("INFLOW"), PyNone, Absent, Absent)}

StatementLists ==
    UNION {[1..n -> StatementTransactions] : n \in 0..MaxTransactions}

TotalValues == {Absent, Num(0), Num(12550)}

Responses ==
    {Malformed, NotAnObject}
        \cup {Document(MakeDict([transactions |-> List(l), totalExpenses |-> e,
                                 totalIncome |-> i, period |-> Str("January 2024")])) :
                 l \in StatementLists, e \in TotalValues, i \in TotalValues}
        \cup {Document(MakeDict([transactions |-> Absent, totalExpenses |-> Absent,
                                 totalIncome |-> Absent, period |-> Absent]))}

InitUpload ==
    /\ \E f \in Filenames, k \in BOOLEAN, r \in Responses :
           upload = [pc |-> "received", filename |-> f, api_key |-> k,
                     response |-> r, invoked |-> FALSE, processed |-> NoCall,
                     http |-> NoCall]
    /\ INCOME_RULES = IncomeRuleNames
    /\ EXPENSE_RULES = ExpenseRuleNames
    /\ txn = MakeDict([description |-> Absent])
    /\ history = <<>>
    /\ result = NoCall
    /\ first = [f \in Classifiers |-> NoCall]
    /\ classification = NoCall
    /\ serialized = NoCall
    /\ threads = [c \in Callers |-> Idle]

\* The checks made before the try block.
ValidateFileType ==
    /\ upload.pc = "received"
    /\ upload' =
           IF upload.filename = ""
           THEN [upload EXCEPT !.pc = "answered",
                               !.http = HTTPException(400, "Filename is required")]
           ELSE IF file_ext(upload.filename) \notin allowed_extensions
           THEN [upload EXCEPT !.pc = "answered",
                               !.http = HTTPException(400, "Invalid file type")]
           ELSE [upload EXCEPT !.pc = "validated"]
    /\ UNCHANGED <<txn, INCOME_RULES, EXPENSE_RULES, history, result, first,
                   classification, serialized, threads>>

\* result = process_bank_statement(file_content, file.filename)
ProcessStatement ==
    /\ upload.pc = "validated"
    /\ upload' = [upload EXCEPT
                      !.pc = "processed",
                      !.invoked = TRUE,
                      !.processed = process_bank_statement(
                                        upload.api_key, upload.response, INCOME_RULES,
                                        EXPENSE_RULES)]
    /\ UNCHANGED <<txn, INCOME_RULES, EXPENSE_RULES, history, result, first,
                   classification, serialized, threads>>

\* The rest of the try block and its except clauses.
Respond ==
    /\ upload.pc = "processed"
    /\ upload' = [upload EXCEPT !.pc = "answered", !.http = Answer(upload.processed)]
    /\ UNCHANGED <<txn, INCOME_RULES, EXPENSE_RULES, history, result, first,
                   classification, serialized, threads>>

NextUpload == ValidateFileType \/ ProcessStatement \/ Respond

SpecUpload == InitUpload /\ [][NextUpload]_vars

-----------------------------------------------------------------------------
(* Vocabulary of the properties *)

Returned == result.kind = "value"
Raised == result.kind = "raise"

\* The direction of the transaction, trimmed and upper-cased as the rules
\* read it; "?" when the field is absent or not a string.
DirectionOf(t) ==
    IF "direction" \in DOMAIN t /\ IsStr(t["direction"])
    THEN upper(strip(t["direction"].v))
    ELSE "?"

HasDirectionString(t) == "direction" \in DOMAIN t /\ IsStr(t["direction"])

\* The trimmed, lower-cased text of a field; "" when absent or null.
TextOf(t, key) ==
    IF key \in DOMAIN t /\ IsStr(t[key]) THEN lower(strip(t[key].v)) ELSE ""

AmountAbsent(t) == "amount" \notin DOMAIN t
AmountNull(t) == "amount" \in DOMAIN t /\ IsNone(t["amount"])
AmountIsNumber(t) == "amount" \in DOMAIN t /\ IsNum(t["amount"])
AmountNegative(t) == AmountIsNumber(t) /\ t["amount"].v < 0
AmountNonPositive(t) == AmountIsNumber(t) /\ t["amount"].v <= 0

\* Some field the rules read is absent or null.
SomeFieldMissing(t) ==
    \E k \in {"description", "amount", "type", "merchant_name",
              "personal_finance_category"} :
        k \notin DOMAIN t \/ IsNone(t[k])

\* The rules of a chain that return a verdict for t, by position.
Matching(chain, t) == {i \in 1..Len(chain) : evaluate(chain[i], t).kind = "value"}

\* The position, from i on, of the earliest rule of a chain that returns a
\* verdict for t; 0 when there is none.
RECURSIVE EarliestMatch(_, _, _)
EarliestMatch(chain, t, i) ==
    IF i > Len(chain) THEN 0
    ELSE IF evaluate(chain[i], t).kind = "value" THEN i
    ELSE EarliestMatch(chain, t, i + 1)


-----------------------------------------------------------------------------
(* C1 *)

\* C1 as stated: classify_expense never returns COUNTABLE_DEDUCTION for a
\* transaction whose direction is INFLOW, whatever its other fields.
C1_InflowNeverDeduction ==
    (op = "classify_expense" /\ DirectionOf(txn) = INFLOW /\ Returned)
        => result.value.final_state # "COUNTABLE_DEDUCTION"

\* C1 amended: classify_expense never returns COUNTABLE_DEDUCTION for a
\* transaction whose direction is INFLOW, whose type hint is not "expense"
\* and whose amount is not negative.
C1_InflowWithoutExpenseSignalNeverDeduction ==
    (/\ op = "classify_expense"
     /\ DirectionOf(txn) = INFLOW
     /\ TextOf(txn, "type") # EXPENSE
     /\ ~AmountNegative(txn)
     /\ Returned)
        => result.value.final_state # "COUNTABLE_DEDUCTION"

\* An INFLOW transaction without expense signal whose description carries a
\* shelter keyword is stopped by the not-an-expense guard.
C1_Witness ==
    /\ op = "classify_expense"
    /\ DirectionOf(txn) = INFLOW
    /\ TextOf(txn, "type") # EXPENSE
    /\ ~AmountNegative(txn)
    /\ contains_any_keyword(TextOf(txn, "description"), SHELTER_KEYWORDS)
    /\ Returned
    /\ result.value.final_state = "NOT_EXPENSE"
    /\ result.value.reason_code = "NOT_AN_EXPENSE_TRANSACTION"

-----------------------------------------------------------------------------
(* C2 *)

\* C2: classify_income never returns COUNTABLE_INCOME for a transaction whose
\* direction is OUTFLOW or whose amount is <= 0.
C2_OutflowOrNonPositiveNeverIncome ==
    (/\ op = "classify_income"
     /\ (DirectionOf(txn) = OUTFLOW \/ AmountNonPositive(txn))
     /\ Returned)
        => result.value.final_state # "COUNTABLE_INCOME"

\* An INFLOW of amount 0 whose description carries a payroll keyword is
\* classified NOT_INCOME.
C2_Witness ==
    /\ op = "classify_income"
    /\ DirectionOf(txn) = INFLOW
    /\ AmountIsNumber(txn) /\ txn["amount"].v = 0
    /\ contains_any_keyword(TextOf(txn, "description"), EARNED_KEYWORDS)
    /\ Returned
    /\ result.value.final_state = "NOT_INCOME"

-----------------------------------------------------------------------------
(* C3 *)

\* C3: a classifier that returns, returns the verdict of the earliest rule
\* of its chain (in the listed order) that matches the transaction, and the
\* default rule's verdict if and only if no rule of the chain matches.
C3_EarliestMatchWins ==
    (op # "none" /\ Returned) =>
        LET chain == ChainOf(op)
            earliest == EarliestMatch(chain, txn, 1)
            default == evaluate(DefaultOf(op), txn)
        IN  /\ earliest # 0 => result = evaluate(chain[earliest], txn)
            /\ earliest = 0 <=> result = default

\* Two rules of the expense chain match and the earlier one's verdict is
\* returned.
C3_Witness ==
    /\ op = "classify_expense"
    /\ Returned
    /\ Cardinality(Matching(ExpenseRuleNames, txn)) >= 2
    /\ evaluate("TransferKeywordsRule", txn).kind = "value"
    /\ evaluate("ShelterRule", txn).kind = "value"
    /\ result = evaluate("TransferKeywordsRule", txn)

-----------------------------------------------------------------------------
(* C4 *)

\* C4 as stated: with direction INFLOW or OUTFLOW, a classifier returns a
\* classification (does not raise) when any of description, amount, type,
\* merchant_name or personal_finance_category is absent or null.
C4_NeverRaises ==
    (/\ op # "none"
     /\ HasDirectionString(txn)
     /\ txn["direction"].v \in {INFLOW, OUTFLOW}
     /\ SomeFieldMissing(txn))
        => Returned

-----------------------------------------------------------------------------
(* C5 *)

XcelEnergy ==
    Transaction(Str("XCEL ENERGY"), Num(-8500), Str("OUTFLOW"), Str("expense"),
                Absent, Absent)

\* C5 as stated: classify_expense on the XCEL ENERGY transaction returns
\* COUNTABLE_DEDUCTION / UTILITIES with category ELECTRIC.
C5_XcelIsElectric ==
    (op = "classify_expense" /\ txn = XcelEnergy) =>
        /\ Returned
        /\ result.value.final_state = "COUNTABLE_DEDUCTION"
        /\ result.value.deduction_type = "UTILITIES"
        /\ result.value.category = "ELECTRIC"

\* C5 amended: classify_expense on the XCEL ENERGY transaction returns
\* COUNTABLE_DEDUCTION / UTILITIES with category UTILITIES_OTHER.
C5_XcelIsUtilitiesOther ==
    (op = "classify_expense" /\ txn = XcelEnergy) =>
        /\ Returned
        /\ result.value.final_state = "COUNTABLE_DEDUCTION"
        /\ result.value.deduction_type = "UTILITIES"
        /\ result.value.category = "UTILITIES_OTHER"

\* The XCEL ENERGY transaction has been classified by the utilities rule.
C5_Witness ==
    /\ op = "classify_expense"
    /\ txn = XcelEnergy
    /\ Returned
    /\ result.value.reason_code = "UTILITY_EXPENSE_SUA_EVIDENCE"

-----------------------------------------------------------------------------
(* C6 *)

UnrecognizedDirection(t) ==
    HasDirectionString(t) /\ DirectionOf(t) \notin {INFLOW, OUTFLOW}

\* C6 as stated: a transaction whose direction string is neither INFLOW nor
\* OUTFLOW is classified FLAG_FOR_REVIEW with confidence LOW by both
\* classifiers.
C6_UnrecognizedDirectionFlagged ==
    (op # "none" /\ UnrecognizedDirection(txn)) =>
        /\ Returned
        /\ result.value.final_state = "FLAG_FOR_REVIEW"
        /\ result.value.confidence = LOW

\* C6 amended: for a transaction whose direction string is neither INFLOW
\* nor OUTFLOW, classify_income returns NOT_INCOME with reason
\* OUTFLOW_TRANSACTION and confidence HIGH, and classify_expense returns
\* NOT_EXPENSE with reason NOT_AN_EXPENSE_TRANSACTION and confidence HIGH
\* when the type hint is not "expense" and the amount is a number >= 0 or
\* absent.
C6_UnrecognizedDirectionRejected ==
    UnrecognizedDirection(txn) =>
        /\ op = "classify_income" =>
              result = Returns(SnapClassification(
                           "NOT_INCOME", None, None, "OUTFLOW_TRANSACTION", HIGH))
        /\ (/\ op = "classify_expense"
            /\ TextOf(txn, "type") # EXPENSE
            /\ ~AmountNegative(txn)
            /\ ~AmountNull(txn)) =>
              result = Returns(ExpenseClassification(
                           "NOT_EXPENSE", None, None,
                           "NOT_AN_EXPENSE_TRANSACTION", HIGH))

\* A positive payroll deposit with an unrecognized direction is rejected by
\* classify_income with HIGH confidence.
C6_Witness ==
    /\ op = "classify_income"
    /\ UnrecognizedDirection(txn)
    /\ contains_any_keyword(TextOf(txn, "description"), EARNED_KEYWORDS)
    /\ AmountIsNumber(txn) /\ txn["amount"].v > 0
    /\ Returned
    /\ result.value.reason_code = "OUTFLOW_TRANSACTION"
    /\ result.value.confidence = HIGH

-----------------------------------------------------------------------------
(* C7 *)

\* C7 as stated: classify_expense returns FLAG_FOR_REVIEW / MISSING_AMOUNT /
\* LOW for every transaction whose amount is absent or null.
C7_MissingAmountFlagged ==
    (op = "classify_expense" /\ (AmountAbsent(txn) \/ AmountNull(txn))) =>
        /\ Returned
        /\ result.value.final_state = "FLAG_FOR_REVIEW"
        /\ result.value.reason_code = "MISSING_AMOUNT"
        /\ result.value.confidence = LOW

-----------------------------------------------------------------------------
(* C8 *)

\* The enrichment category indicates utilities, as C8 words it.
UtilityCategoryAsStated(t) ==
    /\ "personal_finance_category" \in DOMAIN t
    /\ IsDict(t["personal_finance_category"])
    /\ LET c == t["personal_finance_category"].v
           primary == str(Get(c, "primary", Str("")))
           detailed == str(Get(c, "detailed", Str("")))
       IN  \/ In("RENT_AND_UTILITIES", primary)
           \/ In("UTILITIES", primary)
           \/ In("GAS_AND_ELECTRICITY", detailed)

NoGuardOrShelterKeyword(t) ==
    \A text \in {TextOf(t, "description"), TextOf(t, "merchant_name")} :
        /\ ~contains_any_keyword(text, TRANSFER_KEYWORDS)
        /\ ~contains_any_keyword(text, CREDIT_CARD_PAYMENT_KEYWORDS)
        /\ ~contains_any_keyword(text, SHELTER_KEYWORDS)

\* C8 as stated: an outflow with a non-null amount, no transfer, credit-card
\* or shelter keyword and a utilities enrichment category is classified
\* COUNTABLE_DEDUCTION / UTILITIES.
C8_UtilityCategoryIsUtilities ==
    (/\ op = "classify_expense"
     /\ DirectionOf(txn) = OUTFLOW
     /\ AmountIsNumber(txn)
     /\ NoGuardOrShelterKeyword(txn)
     /\ UtilityCategoryAsStated(txn)) =>
        /\ Returned
        /\ result.value.final_state = "COUNTABLE_DEDUCTION"
        /\ result.value.deduction_type = "UTILITIES"

-----------------------------------------------------------------------------
(* C9 *)

StateEnumOf(f) == IF f = "classify_income" THEN IncomeState ELSE ExpenseState

\* C9: every classification a classifier returns has a non-empty
\* reason_code and a final_state of that classifier's enum.
C9_ReasonAndStateWellFormed ==
    (op # "none" /\ Returned) =>
        /\ result.value.reason_code \notin {None, ""}
        /\ result.value.final_state \in StateEnumOf(op)

\* Both default rules have been the ones to answer.
C9_Witness ==
    /\ op = "classify_income"
    /\ Returned
    /\ result.value.reason_code = "UNKNOWN_SOURCE"
    /\ first["classify_expense"].kind = "value"
    /\ first["classify_expense"].value.reason_code = "NOT_A_COUNTABLE_DEDUCTION"

-----------------------------------------------------------------------------
(* C10 *)

-----------------------------------------------------------------------------
(* C11 *)

\* The classifier f applied to transaction t.
Classify(f, t) ==
    IF f = "classify_income"
    THEN classify_income(IncomeRuleNames, t)
    ELSE classify_expense(ExpenseRuleNames, t)

\* Transaction t with the letters of the text of field key in upper case /
\* in lower case; t itself when the field is absent or not text.
UpperCased(t, key) ==
    IF key \in DOMAIN t /\ IsStr(t[key])
    THEN [t EXCEPT ![key] = Str(upper(t[key].v))] ELSE t

LowerCased(t, key) ==
    IF key \in DOMAIN t /\ IsStr(t[key])
    THEN [t EXCEPT ![key] = Str(lower(t[key].v))] ELSE t

\* The transactions that differ from t only in the letter case of the
\* description, of the merchant name, or of both.
CaseVariants(t) ==
    {UpperCased(t, "description"), LowerCased(t, "description"),
     UpperCased(t, "merchant_name"), LowerCased(t, "merchant_name"),
     UpperCased(UpperCased(t, "description"), "merchant_name"),
     LowerCased(LowerCased(t, "description"), "merchant_name")}

\* C11: a classifier gives a transaction and every transaction that differs
\* from it only in the letter case of description and merchant_name the same
\* outcome (checked at the first call of a run).
C11_CaseInsensitive ==
    calls = 1 => \A v \in CaseVariants(txn) : Classify(op, v) = result

\* "RENT PAYMENT" is a shelter cost, as its lower-case spelling is.
C11_Witness ==
    /\ op = "classify_expense"
    /\ calls = 1
    /\ Get(txn, "description", PyNone) = Str("RENT PAYMENT")
    /\ LowerCased(txn, "description") # txn
    /\ Returned
    /\ result.value.deduction_type = "SHELTER"
    /\ Classify(op, LowerCased(txn, "description")) = result

-----------------------------------------------------------------------------
(* C12 *)

\* C12: a call of either classifier leaves the transaction as it was: no
\* field is added or removed and every field keeps its value.
C12_TransactionUnchanged ==
    [][/\ DOMAIN txn' = DOMAIN txn
       /\ \A k \in DOMAIN txn : txn'[k] = txn[k]]_vars

\* classify_income has answered by its first rule and classify_expense by
\* its default rule for a transaction that has no amount field, and it
\* still has none.
C12_Witness ==
    /\ calls >= 2
    /\ "amount" \notin DOMAIN txn
    /\ txn \in Transactions
    /\ first["classify_income"].kind = "value"
    /\ first["classify_income"].value.reason_code = "OUTFLOW_OR_NONPOSITIVE"
    /\ first["classify_expense"].kind = "value"
    /\ first["classify_expense"].value.reason_code = "NOT_A_COUNTABLE_DEDUCTION"

-----------------------------------------------------------------------------
(* C13 *)

OptionalFields(c) ==
    IF IsSnapClassification(c)
    THEN {"income_type", "category", "reason_code"}
    ELSE {"deduction_type", "category", "reason_code"}

\* C13: the dict to_dict returns holds final_state and confidence, holds
\* each optional field (income_type / deduction_type, category,
\* reason_code) exactly when that field is not None, holds no other key,
\* and gives every key the field's value.
C13_ToDictKeys ==
    serialized.kind = "value" =>
        LET dict == serialized.value
        IN  /\ {"final_state", "confidence"} \subseteq DOMAIN dict
            /\ \A k \in OptionalFields(classification) :
                   k \in DOMAIN dict <=> classification[k] # None
            /\ DOMAIN dict \subseteq
                   {"final_state", "confidence"} \cup OptionalFields(classification)
            /\ \A k \in DOMAIN dict : dict[k] = classification[k]

\* An income classification whose category is the empty string and whose
\* income_type and reason_code are unset has been serialized.
C13_Witness ==
    /\ serialized.kind = "value"
    /\ IsSnapClassification(classification)
    /\ classification.category = ""
    /\ classification.income_type = None
    /\ classification.reason_code = None
    /\ DOMAIN serialized.value = {"final_state", "confidence", "category"}

-----------------------------------------------------------------------------
(* C14 *)

\* C14: whatever the interleaving of the callers' steps, the shared rule
\* lists keep the value they were built with, and every caller whose call
\* has ended holds the outcome the classifier gives its transaction when it
\* is classified alone.
C14_ConcurrentCallsIndependent ==
    /\ INCOME_RULES = IncomeRuleNames
    /\ EXPENSE_RULES = ExpenseRuleNames
    /\ \A c \in Callers :
           threads[c].pc = "done" =>
               threads[c].out = Classify(threads[c].f, threads[c].transaction)

\* Caller 1 has finished a call of the classifier that caller 2, on another
\* transaction, is in the middle of.
C14_Witness ==
    /\ threads[1].pc = "done"
    /\ threads[1].out.kind = "value"
    /\ threads[2].pc = "loop"
    /\ threads[2].i >= 3
    /\ threads[2].f = threads[1].f
    /\ threads[2].transaction # threads[1].transaction

-----------------------------------------------------------------------------
(* C15 *)

\* The position, from i on, of the earliest rule of a chain that does not
\* return None for t; 0 when there is none.
RECURSIVE FirstNotNone(_, _, _)
FirstNotNone(chain, t, i) ==
    IF i > Len(chain) THEN 0
    ELSE IF evaluate(chain[i], t).kind # "None" THEN i
    ELSE FirstNotNone(chain, t, i + 1)

\* Rule name of chain is the first to match t: it returns a verdict and
\* every rule before it returns None.
FirstToMatch(chain, t, name) ==
    LET i == FirstNotNone(chain, t, 1)
    IN  /\ i # 0
        /\ chain[i] = name
        /\ evaluate(name, t).kind = "value"

\* C15: classify_expense never returns COUNTABLE_DEDUCTION with
\* deduction_type MEDICAL, and when the medical rule is the first to match
\* it returns FLAG_FOR_REVIEW, deduction_type MEDICAL, confidence LOW (the
\* second part is checked at the first call of a run).
C15_MedicalNeverAutoCounted ==
    op = "classify_expense" =>
        /\ Returned =>
               ~(/\ result.value.final_state = "COUNTABLE_DEDUCTION"
                 /\ result.value.deduction_type = "MEDICAL")
        /\ (calls = 1 /\ FirstToMatch(ExpenseRuleNames, txn, "MedicalRule")) =>
               /\ Returned
               /\ result.value.final_state = "FLAG_FOR_REVIEW"
               /\ result.value.deduction_type = "MEDICAL"
               /\ result.value.confidence = LOW

\* A pharmacy purchase has been classified by the medical rule.
C15_Witness ==
    /\ op = "classify_expense"
    /\ calls = 1
    /\ FirstToMatch(ExpenseRuleNames, txn, "MedicalRule")
    /\ TextOf(txn, "description") = "cvs pharmacy"
    /\ Returned
    /\ result.value.deduction_type = "MEDICAL"
    /\ result.value.final_state = "FLAG_FOR_REVIEW"

-----------------------------------------------------------------------------
(* C16 *)

\* The keyword lists of the sub-categories that the description of t
\* matches.
IsInternet(t) == contains_any_keyword(TextOf(t, "description"), INTERNET_KEYWORDS)
IsElectric(t) == contains_any_keyword(TextOf(t, "description"), ELECTRIC_KEYWORDS)
IsGas(t) == contains_any_keyword(TextOf(t, "description"), GAS_KEYWORDS)

\* C16: when the utilities rule is the first to match, the result is a
\* UTILITIES deduction whose category is INTERNET_OR_PHONE if the description
\* has an internet keyword, else ELECTRIC if it has an electric keyword, else
\* GAS if it has a gas keyword, else UTILITIES_OTHER, with confidence LOW for
\* UTILITIES_OTHER and MEDIUM for the others (checked at the first call of
\* a run).
C16_UtilitySubCategoryOrder ==
    (/\ op = "classify_expense"
     /\ calls = 1
     /\ FirstToMatch(ExpenseRuleNames, txn, "UtilitiesRule")) =>
        /\ Returned
        /\ result.value.final_state = "COUNTABLE_DEDUCTION"
        /\ result.value.deduction_type = "UTILITIES"
        /\ result.value.category =
               (IF IsInternet(txn) THEN "INTERNET_OR_PHONE"
                ELSE IF IsElectric(txn) THEN "ELECTRIC"
                ELSE IF IsGas(txn) THEN "GAS"
                ELSE "UTILITIES_OTHER")
        /\ result.value.confidence =
               (IF result.value.category = "UTILITIES_OTHER" THEN LOW ELSE MEDIUM)

\* "COMCAST ELECTRIC" has an internet and an electric keyword and is
\* INTERNET_OR_PHONE.
C16_Witness ==
    /\ op = "classify_expense"
    /\ calls = 1
    /\ FirstToMatch(ExpenseRuleNames, txn, "UtilitiesRule")
    /\ IsInternet(txn)
    /\ IsElectric(txn)
    /\ Returned
    /\ result.value.category = "INTERNET_OR_PHONE"
    /\ result.value.confidence = MEDIUM

-----------------------------------------------------------------------------
(* C17 *)

HasMortgageWord(text) == In("mortgage", text) \/ In("mtg", text)

\* C17 as stated: when the shelter rule is the first to match, the result is
\* COUNTABLE_DEDUCTION / SHELTER with confidence MEDIUM, of category MORTGAGE
\* if "mortgage" or "mtg" is in the description or in the merchant name, and
\* of category RENT otherwise.
C17_MortgageByDescriptionOrMerchant ==
    (op = "classify_expense" /\ FirstToMatch(ExpenseRuleNames, txn, "ShelterRule")) =>
        /\ Returned
        /\ result.value.final_state = "COUNTABLE_DEDUCTION"
        /\ result.value.deduction_type = "SHELTER"
        /\ result.value.confidence = MEDIUM
        /\ result.value.category =
               (IF \/ HasMortgageWord(TextOf(txn, "description"))
                   \/ HasMortgageWord(TextOf(txn, "merchant_name"))
                THEN "MORTGAGE" ELSE "RENT")

-----------------------------------------------------------------------------
(* C18 *)

\* The direction is absent or text, and the amount is absent or a number:
\* the values the guard compares.
PolarityReadable(t) ==
    /\ "direction" \in DOMAIN t => IsStr(t["direction"])
    /\ "amount" \in DOMAIN t => IsNum(t["amount"])

\* The direction and the amount as the guard reads them (absent: "" and 0).
GuardDirection(t) == upper(strip(GetDefaultEmpty(t, "direction").v))
GuardAmount(t) == GetAmount(t).v

PolarityVerdict(reason) ==
    Returns(SnapClassification("NOT_INCOME", None, None, reason, HIGH))

\* C18: for a transaction whose direction and amount are not null,
\* classify_income returns NOT_INCOME / HIGH with reason OUTFLOW_TRANSACTION
\* when the direction is not INFLOW and with reason OUTFLOW_OR_NONPOSITIVE
\* when it is INFLOW with amount <= 0; for INFLOW with amount > 0 the
\* polarity guard declines and the answer is another rule's.
C18_PolarityGuard ==
    (op = "classify_income" /\ PolarityReadable(txn)) =>
        /\ GuardDirection(txn) # INFLOW =>
               result = PolarityVerdict("OUTFLOW_TRANSACTION")
        /\ (GuardDirection(txn) = INFLOW /\ GuardAmount(txn) <= 0) =>
               result = PolarityVerdict("OUTFLOW_OR_NONPOSITIVE")
        /\ (GuardDirection(txn) = INFLOW /\ GuardAmount(txn) > 0) =>
               /\ evaluate("NotInflowOrNegativeAmountRule", txn) = ReturnsNone
               /\ Returned =>
                      result.value.reason_code \notin
                          {"OUTFLOW_TRANSACTION", "OUTFLOW_OR_NONPOSITIVE"}

\* An INFLOW of amount 0 with a payroll description is stopped with the
\* non-positive-inflow reason.
C18_Witness ==
    /\ op = "classify_income"
    /\ PolarityReadable(txn)
    /\ GuardDirection(txn) = INFLOW
    /\ AmountIsNumber(txn)
    /\ GuardAmount(txn) = 0
    /\ TextOf(txn, "description") = "acme payroll direct deposit"
    /\ result = PolarityVerdict("OUTFLOW_OR_NONPOSITIVE")

-----------------------------------------------------------------------------
(* C19 *)

\* None of the three outflow signals holds for t: its type hint is not
\* "expense", its direction is not OUTFLOW and its amount is not negative.
NoOutflowSignal(t) ==
    /\ TextOf(t, "type") # EXPENSE
    /\ GuardDirection(t) # OUTFLOW
    /\ GuardAmount(t) >= 0

\* C19: for a transaction whose amount is not null (and whose direction is
\* not null), classify_expense returns NOT_EXPENSE with reason
\* NOT_AN_EXPENSE_TRANSACTION and confidence HIGH exactly when none of the
\* three outflow signals holds.
C19_NotExpenseIffNoOutflowSignal ==
    (op = "classify_expense" /\ PolarityReadable(txn)) =>
        (result = Returns(ExpenseClassification(
                      "NOT_EXPENSE", None, None, "NOT_AN_EXPENSE_TRANSACTION", HIGH))
            <=> NoOutflowSignal(txn))

\* An INFLOW of positive amount whose description carries a rent keyword is
\* not an expense.
C19_Witness ==
    /\ op = "classify_expense"
    /\ PolarityReadable(txn)
    /\ NoOutflowSignal(txn)
    /\ AmountIsNumber(txn)
    /\ GuardAmount(txn) > 0
    /\ TextOf(txn, "description") = "rent payment"
    /\ Returned
    /\ result.value.reason_code = "NOT_AN_EXPENSE_TRANSACTION"

-----------------------------------------------------------------------------
(* C20 *)

\* The classifier whose chain rule r belongs to.
FacadeOf(r) ==
    IF r = "DefaultIncomeRule" \/ \E i \in 1..Len(IncomeRuleNames) : IncomeRuleNames[i] = r
    THEN "classify_income" ELSE "classify_expense"

\* A classification with every field the rules fill in: a final_state of
\* the classifier's enum, a confidence and a reason_code.
FullyPopulated(c, f) ==
    /\ c.final_state \in StateEnumOf(f)
    /\ c.confidence \in Confidence
    /\ c.reason_code \notin {None, ""}

\* C20 as stated: a rule called on its own, on a transaction that the
\* classifier of its chain accepts (returns a classification for), returns
\* None or a fully populated classification.
C20_RuleSelfContained ==
    (history # <<>> /\ Classify(FacadeOf(op), txn).kind = "value") =>
        \/ result = ReturnsNone
        \/ /\ Returned
           /\ FullyPopulated(result.value, FacadeOf(op))

-----------------------------------------------------------------------------
(* C21 *)

\* No rule of the chain of classifier f returns a verdict (or raises) for t.
NoRuleMatches(f, t) == FirstNotNone(ChainOf(f), t, 1) = 0

\* C21 as stated: when no rule of the chain matches, the result of either
\* classifier has confidence LOW.
C21_DefaultIsLow ==
    (op # "none" /\ calls = 1 /\ NoRuleMatches(op, txn)) =>
        /\ Returned
        /\ result.value.confidence = LOW

\* C21 amended: when no rule of the chain matches, classify_income returns
\* FLAG_FOR_REVIEW / UNKNOWN_SOURCE with confidence LOW and classify_expense
\* returns NOT_DEDUCTIBLE / NOT_A_COUNTABLE_DEDUCTION with confidence MEDIUM
\* (checked at the first call of a run).
C21_DefaultConfidence ==
    (op # "none" /\ calls = 1 /\ NoRuleMatches(op, txn)) =>
        /\ Returned
        /\ op = "classify_income" =>
               /\ result.value.final_state = "FLAG_FOR_REVIEW"
               /\ result.value.reason_code = "UNKNOWN_SOURCE"
               /\ result.value.confidence = LOW
        /\ op = "classify_expense" =>
               /\ result.value.final_state = "NOT_DEDUCTIBLE"
               /\ result.value.reason_code = "NOT_A_COUNTABLE_DEDUCTION"
               /\ result.value.confidence = MEDIUM

\* An outflow that no expense rule recognizes is answered by the default
\* rule with confidence MEDIUM.
C21_Witness ==
    /\ op = "classify_expense"
    /\ calls = 1
    /\ NoRuleMatches(op, txn)
    /\ TextOf(txn, "description") = "random merchant xyz"
    /\ Returned
    /\ result.value.final_state = "NOT_DEDUCTIBLE"
    /\ result.value.confidence = MEDIUM

-----------------------------------------------------------------------------
(* C26 *)

\* The description of the transaction contains a transfer keyword of the
\* expense chain.
HasTransferWord(t) ==
    \E i \in 1..Len(TRANSFER_KEYWORDS) : In(TRANSFER_KEYWORDS[i], TextOf(t, "description"))

\* C26: a transaction with a non-null amount whose description contains a
\* transfer keyword is never returned by classify_expense as
\* COUNTABLE_DEDUCTION: every verdict returned for it is NOT_EXPENSE (the
\* transfer guard's INTERNAL_TRANSFER or, before it, NotExpenseRule's),
\* whatever other keywords, merchant name or enrichment category it carries.
C26_TransferGuardFirst ==
    (op = "classify_expense" /\ Returned /\ result.value.final_state # "NOT_EXPENSE") =>
        ~(HasTransferWord(txn) /\ ~AmountNull(txn))

\* An outflow described as a transfer and as rent, paid to a landlord and
\* enriched as rent, has been answered by the transfer guard.
C26_Witness ==
    /\ op = "classify_expense"
    /\ TextOf(txn, "description") = "transfer rent"
    /\ "merchant_name" \in DOMAIN txn /\ txn["merchant_name"] = Str("Greystar Apartments")
    /\ "personal_finance_category" \in DOMAIN txn
    /\ IsDict(txn["personal_finance_category"])
    /\ Get(txn["personal_finance_category"].v, "detailed", PyNone)
           = Str("RENT_AND_UTILITIES_RENT")
    /\ Returned
    /\ result.value.final_state = "NOT_EXPENSE"
    /\ result.value.reason_code = "INTERNAL_TRANSFER"

-----------------------------------------------------------------------------
(* C27 *)

\* The description contains a not-income keyword / an exclude keyword.
HasNotIncomeWord(t) ==
    \E i \in 1..Len(NOT_INCOME_KEYWORDS) :
        In(NOT_INCOME_KEYWORDS[i], TextOf(t, "description"))

HasExcludeWord(t) ==
    \E i \in 1..Len(EXCLUDE_KEYWORDS) : In(EXCLUDE_KEYWORDS[i], TextOf(t, "description"))

\* The amount is a number above zero.
AmountPositive(t) == AmountIsNumber(t) /\ t["amount"].v > 0

\* C27: for an INFLOW transaction with positive amount, classify_income
\* returns NOT_INCOME (MEDIUM) with reason
\* REIMBURSEMENT_REFUND_LOAN_OR_SIMILAR when the description contains a
\* not-income keyword, and with reason
\* INTERNAL_TRANSFER_OR_NONINCOME_TRANSFER when it contains an exclude
\* keyword and no not-income keyword, whatever payroll, benefit or interest
\* keywords and whatever type hint the transaction also carries.
C27_KeywordGuardsFirst ==
    (op = "classify_income" /\ DirectionOf(txn) = "INFLOW" /\ AmountPositive(txn) /\
     (HasNotIncomeWord(txn) \/ HasExcludeWord(txn))) =>
        /\ Returned
        /\ result.value.final_state = "NOT_INCOME"
        /\ result.value.confidence = MEDIUM
        /\ result.value.reason_code =
               IF HasNotIncomeWord(txn) THEN "REIMBURSEMENT_REFUND_LOAN_OR_SIMILAR"
               ELSE "INTERNAL_TRANSFER_OR_NONINCOME_TRANSFER"

\* A payroll refund with type hint "payroll" has been answered by the
\* not-income guard.
C27_Witness ==
    /\ op = "classify_income"
    /\ DirectionOf(txn) = "INFLOW"
    /\ AmountPositive(txn)
    /\ TextOf(txn, "description") = "payroll refund"
    /\ TextOf(txn, "type") = "payroll"
    /\ Returned
    /\ result.value.final_state = "NOT_INCOME"
    /\ result.value.reason_code = "REIMBURSEMENT_REFUND_LOAN_OR_SIMILAR"

-----------------------------------------------------------------------------
(* C28 *)

\* C28: in every result of classify_income, income_type is set exactly when
\* final_state is COUNTABLE_INCOME and confidence is LOW exactly when
\* final_state is FLAG_FOR_REVIEW; in every result of classify_expense with
\* final_state COUNTABLE_DEDUCTION, deduction_type is SHELTER, UTILITIES,
\* CHILDCARE or CHILD_SUPPORT_PAID.
C28_FieldsAgreeWithState ==
    /\ (op = "classify_income" /\ Returned) =>
           /\ result.value.income_type # None
                  <=> result.value.final_state = "COUNTABLE_INCOME"
           /\ result.value.confidence = LOW
                  <=> result.value.final_state = "FLAG_FOR_REVIEW"
    /\ (op = "classify_expense" /\ Returned /\
        result.value.final_state = "COUNTABLE_DEDUCTION") =>
           result.value.deduction_type
               \in {"SHELTER", "UTILITIES", "CHILDCARE", "CHILD_SUPPORT_PAID"}

\* A deposit with type hint "interest" has been counted as unearned income
\* with high confidence.
C28_Witness ==
    /\ op = "classify_income"
    /\ TextOf(txn, "type") = "interest"
    /\ Returned
    /\ result.value.final_state = "COUNTABLE_INCOME"
    /\ result.value.income_type = "UNEARNED_INCOME"
    /\ result.value.confidence = HIGH

-----------------------------------------------------------------------------
(* C29 *)

\* C29: classify_income never returns final_state EXCLUDED_INCOME and
\* classify_expense never returns deduction_type LEGAL_CHILD_SUPPORT.
C29_UnusedVerdictValues ==
    /\ (op = "classify_income" /\ Returned) =>
           result.value.final_state \in IncomeState \ {"EXCLUDED_INCOME"}
    /\ (op = "classify_expense" /\ Returned) =>
           result.value.deduction_type # "LEGAL_CHILD_SUPPORT"

\* A child support payment has been returned as CHILD_SUPPORT_PAID.
C29_Witness ==
    /\ op = "classify_expense"
    /\ TextOf(txn, "description") = "child support"
    /\ Returned
    /\ result.value.final_state = "COUNTABLE_DEDUCTION"
    /\ result.value.deduction_type = "CHILD_SUPPORT_PAID"

-----------------------------------------------------------------------------
(* Vocabulary of the properties of an upload *)

\* process_bank_statement was called and returned a result.
ProcessReturned == upload.invoked /\ upload.processed.kind = "value"

\* The extraction answered with a JSON object.
IsDocument == upload.pc # "none" /\ upload.response.json = "object"

\* The JSON object carries the key.
Supplied(key) == IsDocument /\ key \in DOMAIN upload.response.v

\* The transactions of the JSON object, none when the key is left out.
Extracted ==
    IF Supplied("transactions") THEN upload.response.v["transactions"].v ELSE <<>>

\* The sum of the amounts of the extracted transactions whose type is
\* exactly the given one (a transaction without amount counts 0).
RECURSIVE AmountsOfType(_, _, _)
AmountsOfType(l, type, i) ==
    IF i > Len(l) THEN 0
    ELSE (IF "type" \in DOMAIN l[i] /\ l[i]["type"] = Str(type) /\
             "amount" \in DOMAIN l[i] /\ IsNum(l[i]["amount"])
          THEN l[i]["amount"].v ELSE 0)
         + AmountsOfType(l, type, i + 1)

-----------------------------------------------------------------------------
(* C22 *)

\* C22: when the response supplies totalExpenses and totalIncome, the
\* result of process_bank_statement carries exactly the supplied values,
\* a supplied 0 included.
C22_SuppliedTotalsReturned ==
    (ProcessReturned /\ Supplied("totalExpenses") /\ Supplied("totalIncome")) =>
        /\ upload.processed.value.total_expenses = upload.response.v["totalExpenses"].v
        /\ upload.processed.value.total_income = upload.response.v["totalIncome"].v

-----------------------------------------------------------------------------
(* C23 *)

\* C23: when the response leaves out a total and process_bank_statement
\* returns, total_expenses is the sum of the amounts of the transactions of
\* type "expense" and total_income the sum of those of type "income".
C23_OmittedTotalsComputed ==
    (ProcessReturned /\ IsDocument /\
     (~Supplied("totalExpenses") \/ ~Supplied("totalIncome"))) =>
        /\ upload.processed.value.total_expenses = AmountsOfType(Extracted, "expense", 1)
        /\ upload.processed.value.total_income = AmountsOfType(Extracted, "income", 1)

\* A statement of one paycheck and one rent payment without totals: the
\* totals are the two amounts.
C23_Witness ==
    /\ ProcessReturned
    /\ IsDocument
    /\ ~Supplied("totalExpenses")
    /\ ~Supplied("totalIncome")
    /\ Len(Extracted) = 2
    /\ upload.processed.value.total_expenses = 12550
    /\ upload.processed.value.total_income = 500000

-----------------------------------------------------------------------------
(* C24 *)

\* The result carries an error.
HasError(r) == r.error \notin {None, ""}

\* C24: on a response that is not valid JSON process_bank_statement returns
\* a result with the error set, no transactions and both totals 0, and the
\* endpoint answers every result that carries an error with status 500.
C24_ParseErrorBecomes500 ==
    /\ (upload.invoked /\ upload.api_key /\ upload.response = Malformed) =>
           /\ upload.processed.kind = "value"
           /\ HasError(upload.processed.value)
           /\ upload.processed.value.transactions = <<>>
           /\ upload.processed.value.total_expenses = 0
           /\ upload.processed.value.total_income = 0
    /\ (upload.pc = "answered" /\ ProcessReturned /\ HasError(upload.processed.value)) =>
           /\ upload.http.status = 500
           /\ upload.http.detail = upload.processed.value.error

\* An upload whose extraction is not JSON has been answered with 500.
C24_Witness ==
    /\ upload.pc = "answered"
    /\ upload.invoked
    /\ upload.response = Malformed
    /\ upload.processed.kind = "value"
    /\ HasError(upload.processed.value)
    /\ upload.http.status = 500

-----------------------------------------------------------------------------
(* C25 *)

\* The file name ends with a dot and one of the allowed extensions, in any
\* letter case.
HasAllowedExtension(filename) ==
    \E e \in {"pdf", "png", "jpg", "jpeg"} :
        /\ Len(filename) > Len(e)
        /\ lower(SubSeq(filename, Len(filename) - Len(e), Len(filename))) = "." \o e

\* C25: a file without an allowed extension is never passed to
\* process_bank_statement and is answered with 400 ("Invalid file type"
\* when it has a name, "Filename is required" when the name is empty); a
\* file with an allowed extension is answered with 200 or 500 only.
C25_FileTypeCheckedFirst ==
    /\ (upload.pc # "none" /\ ~HasAllowedExtension(upload.filename)) =>
           /\ ~upload.invoked
           /\ upload.pc = "answered" =>
                  /\ upload.http.status = 400
                  /\ upload.http.detail = IF upload.filename = ""
                                          THEN "Filename is required"
                                          ELSE "Invalid file type"
    /\ (upload.pc = "answered" /\ HasAllowedExtension(upload.filename)) =>
           /\ upload.invoked
           /\ upload.http.status \in {200, 500}
           /\ upload.http.status = 500 => upload.http.detail # "Invalid file type"

\* A file whose last extension is not allowed, after an allowed one, has
\* been rejected without processing.
C25_Witness ==
    /\ upload.pc = "answered"
    /\ upload.filename = "statement.pdf.exe"
    /\ ~upload.invoked
    /\ upload.http = HTTPException(400, "Invalid file type")

-----------------------------------------------------------------------------
(* C30 *)

\* The transaction is routed to classify_income.
IsIncomeType(t) == "type" \in DOMAIN t /\ t["type"] = Str("income")

\* The transaction as the classifier receives it: direction INFLOW for the
\* income classifier and OUTFLOW for the expense classifier.
Routed(t) ==
    [k \in DOMAIN t \cup {"direction"} |->
        IF k = "direction" THEN Str(IF IsIncomeType(t) THEN INFLOW ELSE OUTFLOW)
        ELSE t[k]]

\* The serialized classification transaction t must carry.
ExpectedClassification(t) ==
    IF IsIncomeType(t)
    THEN SnapClassification_to_dict(Classify("classify_income", Routed(t)).value)
    ELSE ExpenseClassification_to_dict(Classify("classify_expense", Routed(t)).value)

\* C30: in every result process_bank_statement returns without error, each
\* extracted transaction is there once, unchanged but for the key
\* snap_classification, which holds the verdict of classify_income on the
\* transaction with direction INFLOW when its type is "income" and of
\* classify_expense with direction OUTFLOW otherwise; the verdict of a
\* transaction routed to classify_expense is never NOT_EXPENSE /
\* NOT_AN_EXPENSE_TRANSACTION.
C30_EveryTransactionClassified ==
    (ProcessReturned /\ ~HasError(upload.processed.value)) =>
        LET out == upload.processed.value.transactions
        IN  /\ Len(out) = Len(Extracted)
            /\ \A i \in 1..Len(Extracted) :
                   LET t == Extracted[i]
                   IN  /\ DOMAIN out[i] = DOMAIN t \cup {"snap_classification"}
                       /\ \A k \in DOMAIN t : out[i][k] = t[k]
                       /\ out[i]["snap_classification"] = Dict(ExpectedClassification(t))
                       /\ ~IsIncomeType(t) =>
                              ~ /\ out[i]["snap_classification"].v["final_state"]
                                       = "NOT_EXPENSE"
                                /\ out[i]["snap_classification"].v["reason_code"]
                                       = "NOT_AN_EXPENSE_TRANSACTION"

\* A statement of a paycheck and of a payment without type, extracted with
\* direction INFLOW: the first is counted as income, the second went through
\* the expense rules as an outflow (a pharmacy: flagged for review).
C30_Witness ==
    /\ ProcessReturned
    /\ Len(Extracted) = 2
    /\ IsIncomeType(Extracted[1])
    /\ "type" \in DOMAIN Extracted[2] /\ Extracted[2]["type"] = PyNone
    /\ Extracted[2]["direction"] = Str("INFLOW")
    /\ upload.processed.value.transactions[1]["snap_classification"].v["final_state"]
           = "COUNTABLE_INCOME"
    /\ upload.processed.value.transactions[2]["snap_classification"].v["final_state"]
           = "FLAG_FOR_REVIEW"

=============================================================================
